---- MODULE Spec2Model ----
(***************************************************************************)
(* Model of the bifrost-benchmarking load generator.                       *)
(*                                                                         *)
(* Part 1: package concurrent (Runner): dispatcher workers, the admission  *)
(* semaphore, detached request tasks, lock-protected metrics, the ramp-up  *)
(* scheduler and the deadline context of Runner.Run.                       *)
(*                                                                         *)
(* Time is counted in periods of the ramp-up ticker (100ms): `now` is the  *)
(* time elapsed since Run took startTime, duration and rampUpDuration are  *)
(* given in the same unit.  Goroutines of the same code are kept as        *)
(* counters per program point where they are interchangeable (dispatcher   *)
(* workers) and as a bag of task states where they carry data (request     *)
(* tasks).                                                                 *)
(*                                                                         *)
(* Part 2: the benchmark orchestrator (runBenchmarks) and the server       *)
(* memory sampler (monitorServerMemory).  The sampler has its own clock,   *)
(* memClock, counted in periods of its 500ms ticker since the ticker was   *)
(* created.                                                                *)
(*                                                                         *)
(* Spec runs one Runner.Run; SpecBench runs runBenchmarks over a list of   *)
(* providers in users mode, each attack being one Runner.Run of which the  *)
(* dispatcher workers are followed step by step and the request tasks from *)
(* their start to their end.                                               *)
(*                                                                         *)
(* Part 3: main (flag validation, the choice between users mode and rate   *)
(* mode, the result loop of the rate-mode attack) under SpecMain, and      *)
(* saveResults (read, decode, merge by lowercased provider name, write)    *)
(* under SpecSave.                                                         *)
(*                                                                         *)
(* Part 4: the mock server (mocker/main.go): the router, the handler       *)
(* prologue of the API endpoints (authentication, method, TPM limit,       *)
(* provider errors, plain failures) and its process clock, under SpecMock. *)
(*                                                                         *)
(* Part 5: the request tasks of one Run without ramp-up under SpecTasks,   *)
(* and the ramp-up schedule with longer ramps and more users under         *)
(* SpecSched; SpecSchedFair adds the weak fairness the Go scheduler and    *)
(* the runtime timers give to the steps of Run and of its workers.         *)
(*                                                                         *)
(* Part 6: the reduction of the results in runBenchmarks (status           *)
(* histogram, drop reasons, mean latency) under SpecReduce, the sampler    *)
(* monitorServerMemory with the values it reads under SpecMon, and the     *)
(* hitter load generator (src/hitter) under SpecHitter.                    *)
(***************************************************************************)
EXTENDS Naturals, Integers, Sequences, FiniteSets, Bags, TLC

\* ------------------------------------------------------------------ bounds
MaxUsers == 2
MaxDuration == 2
MaxRequests == 2
MaxProviders == 2
MaxMemTicks == 2
MaxFlag == 1
MaxHits == 2

\* the status codes and latencies (in ticker periods) the HTTP transport
\* answers with in the model
StatusCodes == {200, 500}
Latencies == {1}

\* --------------------------------------------------------------- variables
VARIABLES
    numUsers,        \* Runner.numUsers
    duration,        \* Runner.duration, in ticker periods
    rampUp,          \* Runner.rampUp
    rampUpDuration,  \* Runner.rampUpDuration, in ticker periods
    now,             \* time elapsed since Run started, in ticker periods
    ctxDone,         \* the deadline-bound context of Run is cancelled
    parentDone,      \* the caller's context is cancelled
    runPc,           \* position of Run: "start", "ramp", "wait", "returned"
    workersStarted,  \* dispatcher workers started so far
    rampUpStarted,   \* runWithRampUp: the first tick has been handled
    tickPending,     \* rampUpTicker.C holds a tick (buffer of one)
    tickerOn,        \* rampUpTicker is running
    lagged,          \* a tick fired while the previous one was unhandled
    wgCount,         \* Runner.wg counter
    wCheck,          \* workers at the first select (ctx check)
    wAcquire,        \* workers at the second select (slot or ctx)
    semaphore,       \* tokens held in Runner.semaphore
    admitted,        \* request tasks started so far
    tasks,           \* bag of the request tasks in flight: [pc, res]
    metrics,         \* Runner.metrics
    \* ---- runBenchmarks and monitorServerMemory
    providers,       \* per provider: Port # ""
    cooldown,        \* the cooldown flag is > 0
    target,          \* index i of the provider being benchmarked
    bpc,             \* position of runBenchmarks in the loop body
    orphans,         \* request tasks still running of Runners whose Run returned
    stopClosed,      \* stopMonitoring is closed
    monPc,           \* position of the sampler goroutine
    monTickPending,  \* ticker.C of the sampler holds a tick
    monTickerOn,     \* the sampler's ticker is running
    memClock,        \* sampler ticker periods elapsed since NewTicker
    memStat,         \* the ServerMemStat built on the current tick
    serverMemStats,  \* the shared sample slice
    monStarved,      \* the sampler stayed runnable for a whole ticker period
    samplesAfterStop,\* samples appended since stopMonitoring was closed
    lookupFailed,    \* the sampler goroutine returned on getProcessByPort's error
    results,         \* the BenchmarkResults appended so far
    \* ---- main, the rate-mode attack loop and saveResults
    rate,            \* the --rate flag
    users,           \* the --users flag
    mainPc,          \* position of main
    attack,          \* the vegeta attack and the loop over its results
    outputFile,      \* the result file as saveResults finds it
    resultsMap,      \* saveResults.resultsMap
    written,     \* the document saveResults wrote to the result file
    auth,            \* mocker: the -auth flag ("" = no authentication)
    withErrors,      \* mocker: the -with-errors flag
    failurePercent,  \* mocker: the -failure-percent flag
    failureJitter,   \* mocker: the -failure-jitter flag
    tpm,             \* mocker: the -tpm flag, in seconds
    elapsedSeconds,  \* mocker: int(time.Since(startTime).Seconds())
    tpmTriggeredLogged, \* mocker: the flag of the same name
    req,             \* mocker: the request being handled
    efp,             \* mocker: outcome of the last effectiveFailurePercent()
    tpmAnswered,     \* mocker: some request was answered 429 by the TPM check
    \* ---- runBenchmarks: the reduction of one target's results
    dropReasons,     \* runBenchmarks.dropReasons
    conv,            \* the reduction: position, statusCodes, vegeta metrics
    \* ---- hitter
    hitterStats,     \* hitter: stats, the Stats counters
    hitter           \* hitter: main, its context and WaitGroup, the requests

runnerVars == <<numUsers, duration, rampUp, rampUpDuration, now, ctxDone,
                parentDone, runPc, workersStarted, rampUpStarted, tickPending,
                tickerOn, lagged, wgCount, wCheck, wAcquire, semaphore,
                admitted, tasks, metrics>>

benchVars == <<providers, cooldown, target, bpc, orphans, stopClosed, monPc,
               monTickPending, monTickerOn, memClock, memStat, serverMemStats,
               monStarved, samplesAfterStop, lookupFailed, results>>

mainVars == <<rate, users, mainPc, attack, outputFile, resultsMap, written>>

mockVars == <<auth, withErrors, failurePercent, failureJitter, tpm,
              elapsedSeconds,
              tpmTriggeredLogged, req, efp, tpmAnswered>>

reduceVars == <<dropReasons, conv>>

hitterVars == <<hitterStats, hitter>>

vars == <<runnerVars, benchVars, mainVars, mockVars, reduceVars, hitterVars>>

\* ------------------------------------------------------------------ helpers
Max(a, b) == IF a >= b THEN a ELSE b
Min(a, b) == IF a <= b THEN a ELSE b

NoResult == [StatusCode |-> 0, Latency |-> 0, Error |-> "", Success |-> FALSE]

\* Result literals built by makeRequest on its four exit paths
GenFailure == [StatusCode |-> 0, Latency |-> 0,
               Error |-> "request generation failed", Success |-> FALSE]
NewRequestFailure == [StatusCode |-> 0, Latency |-> 0,
                      Error |-> "failed to create http request", Success |-> FALSE]
TransportFailure(lat) == [StatusCode |-> 0, Latency |-> lat,
                          Error |-> "request failed", Success |-> FALSE]
ResponseAnyStatus(code, lat) == [StatusCode |-> code, Latency |-> lat,
                                 Error |-> "", Success |-> (code >= 200)]
Response(code, lat) == [StatusCode |-> code, Latency |-> lat, Error |-> "",
                        Success |-> (code >= 200 /\ code < 300)]

\* capacity of the admission semaphore: make(chan struct{}, numUsers)
SemaphoreCapPlusOne == numUsers + 1
SemaphoreCap == numUsers

NewMetrics == [TotalRequests |-> 0, SuccessCount |-> 0, FailureCount |-> 0,
               SuccessRate |-> 0, Results |-> <<>>, TotalLatency |-> 0,
               MinLatency |-> 0, MaxLatency |-> 0, mu |-> FALSE]

\* a request task moves from state t to state u / is started / ends
Move(t, u) == (tasks (-) SetToBag({t})) (+) SetToBag({u})
Started(u) == tasks (+) SetToBag({u})
Ended(t) == tasks (-) SetToBag({t})

\* the states of the request tasks in flight
TaskStates == BagToSet(tasks)
\* the number of request tasks at the program points pcs
CountAt(pcs) ==
    BagCardinality([t \in {x \in TaskStates : x.pc \in pcs} |-> tasks[t]])
\* request tasks that have been started and have not released their slot
InFlight == BagCardinality(tasks)
\* request tasks inside client.Do
Executing == CountAt({"do"})

\* ------------------------------------------------------------------- Init
\* the orchestrator variables while a single Run is studied on its own
BenchIdle ==
    /\ providers = <<>>
    /\ cooldown = FALSE
    /\ target = 0
    /\ bpc = "attack"
    /\ orphans = 0
    /\ stopClosed = FALSE
    /\ monPc = "none"
    /\ monTickPending = FALSE
    /\ monTickerOn = FALSE
    /\ memClock = 0
    /\ memStat = 0
    /\ serverMemStats = <<>>
    /\ monStarved = FALSE
    /\ samplesAfterStop = 0
    /\ lookupFailed = FALSE
    /\ results = <<>>

\* main, the attack loop and saveResults while they are not studied
NoAttack == [engine |-> "none", open |-> FALSE, inFlight |-> 0,
             attempted |-> 0, added |-> 0, timedOut |-> FALSE,
             contextTimeout |-> 0, loop |-> "none"]
\* the mock server's variables while it is not studied: default flags, no
\* request
NoRequest == [pc |-> "none", path |-> "", method |-> "", authorization |-> "",
              at |-> 0, afterTpm |-> FALSE, status |-> 0, cause |-> ""]
NoCall == [st |-> "none", v |-> 0]
\* the locals of runBenchmarks' reduction while no target is being reduced
NoVegeta == [Requests |-> 0, Success |-> 0, Mean |-> 0, Min |-> 0, Max |-> 0,
             StatusCodes |-> <<>>, Rate |-> 0]
NoConv == [pc |-> "none", i |-> 0, pending |-> <<>>, statusCodes |-> <<>>,
           metrics |-> NoVegeta]
ReduceIdle ==
    /\ dropReasons = <<>>
    /\ conv = NoConv

\* the hitter while it does not run
NoStats == [totalRequests |-> 0, successRequests |-> 0, errorRequests |-> 0]
NoHitter == [pc |-> "none", ctxDone |-> FALSE, wg |-> 0, requestCount |-> 0,
             tasks |-> <<>>, final |-> NoStats]
HitterIdle ==
    /\ hitterStats = NoStats
    /\ hitter = NoHitter

MockIdle ==
    /\ auth = ""
    /\ withErrors = FALSE
    /\ failurePercent = 0
    /\ failureJitter = 0
    /\ tpm = 0
    /\ elapsedSeconds = 0
    /\ tpmTriggeredLogged = FALSE
    /\ req = NoRequest
    /\ efp = NoCall
    /\ tpmAnswered = FALSE

MainIdle ==
    /\ rate = 0
    /\ users = 1
    /\ mainPc = "run"
    /\ attack = NoAttack
    /\ outputFile = [kind |-> "absent", doc |-> <<>>]
    /\ resultsMap = <<>>
    /\ written = <<>>

\* NewRunner, optionally followed by WithRampUp, then the call of Run
RunnerInit ==
    /\ numUsers \in 1..MaxUsers
    /\ duration \in 1..MaxDuration
    /\ rampUp \in BOOLEAN
    /\ rampUpDuration \in (IF rampUp THEN 1..duration ELSE {0})
    /\ BenchIdle
    /\ MainIdle
    /\ MockIdle
    /\ ReduceIdle
    /\ HitterIdle
    /\ now = 0
    /\ ctxDone = FALSE
    /\ parentDone = FALSE
    /\ runPc = "start"
    /\ workersStarted = 0
    /\ rampUpStarted = FALSE
    /\ tickPending = FALSE
    /\ tickerOn = FALSE
    /\ lagged = FALSE
    /\ wgCount = 0
    /\ wCheck = 0
    /\ wAcquire = 0
    /\ semaphore = 0
    /\ admitted = 0
    /\ tasks = EmptyBag
    /\ metrics = NewMetrics

Init == RunnerInit

\* ---------------------------------------------------------------- actions
\* Run, entry: with ramp-up it enters runWithRampUp (startTime, NewTicker);
\* without, it starts all numUsers workers.
RunStart ==
    /\ runPc = "start"
    /\ IF rampUp
         THEN /\ runPc' = "ramp"
              /\ tickerOn' = TRUE
              /\ UNCHANGED <<workersStarted, wgCount, wCheck>>
         ELSE /\ runPc' = "wait"
              /\ workersStarted' = numUsers
              /\ wgCount' = wgCount + numUsers
              /\ wCheck' = wCheck + numUsers
              /\ UNCHANGED tickerOn
    /\ UNCHANGED <<numUsers, duration, rampUp, rampUpDuration, now, ctxDone,
                   parentDone, rampUpStarted, tickPending, lagged, wAcquire,
                   semaphore, admitted, tasks, metrics>>
    /\ UNCHANGED <<benchVars, mainVars, mockVars, reduceVars, hitterVars>>

\* the ramp target computed on a tick:
\* int(float64(numUsers) * elapsed.Seconds() / rampUpDuration.Seconds()), at least 1
TargetWorkersCeil(elapsed) ==
    Max(1, (numUsers * elapsed + rampUpDuration - 1) \div rampUpDuration)
TargetWorkers(elapsed) == Max(1, (numUsers * elapsed) \div rampUpDuration)

\* the number of workers started once a tick at `elapsed` has been handled
StartedAfterTick(elapsed) ==
    IF ~rampUpStarted THEN 1
    ELSE IF elapsed < rampUpDuration
         THEN Max(workersStarted, Min(TargetWorkers(elapsed), numUsers))
         ELSE Max(workersStarted, numUsers)

\* runWithRampUp: case <-rampUpTicker.C
RampTick ==
    /\ runPc = "ramp"
    /\ tickPending
    /\ tickPending' = FALSE
    /\ LET n == StartedAfterTick(now)
           k == n - workersStarted
           finished == rampUpStarted /\ now >= rampUpDuration
       IN /\ workersStarted' = n
          /\ wgCount' = wgCount + k
          /\ wCheck' = wCheck + k
          /\ rampUpStarted' = TRUE
          /\ runPc' = IF finished THEN "wait" ELSE "ramp"
          /\ tickerOn' = IF finished THEN FALSE ELSE tickerOn
    /\ UNCHANGED <<numUsers, duration, rampUp, rampUpDuration, now, ctxDone,
                   parentDone, lagged, wAcquire, semaphore, admitted,
                   tasks, metrics>>
    /\ UNCHANGED <<benchVars, mainVars, mockVars, reduceVars, hitterVars>>

\* runWithRampUp: case <-ctx.Done() (deferred rampUpTicker.Stop)
RampCtxDone ==
    /\ runPc = "ramp"
    /\ ctxDone
    /\ runPc' = "wait"
    /\ tickerOn' = FALSE
    /\ UNCHANGED <<numUsers, duration, rampUp, rampUpDuration, now, ctxDone,
                   parentDone, workersStarted, rampUpStarted, tickPending,
                   lagged, wgCount, wCheck, wAcquire, semaphore, admitted,
                   tasks, metrics>>
    /\ UNCHANGED <<benchVars, mainVars, mockVars, reduceVars, hitterVars>>

\* one ticker period passes while Run runs: the ticker delivers a tick
\* (dropped when the previous one is still in the channel) and the deadline
\* of context.WithTimeout(ctx, r.duration) fires when reached.  Time is
\* followed as long as the code can observe it: until the context is
\* cancelled, and after that while the ramp-up ticker still runs.
ClockTick ==
    /\ runPc \in {"ramp", "wait"}
    /\ now <= duration
    /\ ~ctxDone \/ tickerOn
    /\ now' = now + 1
    /\ tickPending' = (tickPending \/ tickerOn)
    /\ lagged' = (lagged \/ (tickerOn /\ tickPending))
    /\ ctxDone' = (ctxDone \/ now' >= duration)
    /\ UNCHANGED <<numUsers, duration, rampUp, rampUpDuration, parentDone,
                   runPc, workersStarted, rampUpStarted, tickerOn, wgCount,
                   wCheck, wAcquire, semaphore, admitted, tasks,
                   metrics>>
    /\ UNCHANGED <<benchVars, mainVars, mockVars, reduceVars, hitterVars>>

\* the context handed to Run is cancelled by its owner, before the deadline
\* or Run's deferred cancel has ended the derived context
ParentCancel ==
    /\ ~ctxDone
    /\ parentDone' = TRUE
    /\ ctxDone' = TRUE
    /\ UNCHANGED <<numUsers, duration, rampUp, rampUpDuration, now, runPc,
                   workersStarted, rampUpStarted, tickPending, tickerOn,
                   lagged, wgCount, wCheck, wAcquire, semaphore, admitted,
                   tasks, metrics>>
    /\ UNCHANGED <<benchVars, mainVars, mockVars, reduceVars, hitterVars>>

\* worker, first select: ctx.Done() is ready, return (deferred wg.Done)
WorkerCheckDone ==
    /\ wCheck > 0
    /\ ctxDone
    /\ wCheck' = wCheck - 1
    /\ wgCount' = wgCount - 1
    /\ UNCHANGED <<numUsers, duration, rampUp, rampUpDuration, now, ctxDone,
                   parentDone, runPc, workersStarted, rampUpStarted,
                   tickPending, tickerOn, lagged, wAcquire, semaphore,
                   admitted, tasks, metrics>>
    /\ UNCHANGED <<benchVars, mainVars, mockVars, reduceVars, hitterVars>>

\* worker, first select: default branch
WorkerCheckDefault ==
    /\ wCheck > 0
    /\ ~ctxDone
    /\ wCheck' = wCheck - 1
    /\ wAcquire' = wAcquire + 1
    /\ UNCHANGED <<numUsers, duration, rampUp, rampUpDuration, now, ctxDone,
                   parentDone, runPc, workersStarted, rampUpStarted,
                   tickPending, tickerOn, lagged, wgCount, semaphore,
                   admitted, tasks, metrics>>
    /\ UNCHANGED <<benchVars, mainVars, mockVars, reduceVars, hitterVars>>

\* worker, second select: case r.semaphore <- struct{}{}: go r.makeRequest().
\* The send is ready whenever the channel has room; when ctx.Done() is ready
\* too the runtime picks either case.
WorkerAcquire ==
    /\ wAcquire > 0
    /\ semaphore < SemaphoreCap
    /\ admitted < MaxRequests
    /\ semaphore' = semaphore + 1
    /\ admitted' = admitted + 1
    /\ tasks' = Started([pc |-> "prepare", res |-> NoResult])
    /\ wAcquire' = wAcquire - 1
    /\ wCheck' = wCheck + 1
    /\ UNCHANGED <<numUsers, duration, rampUp, rampUpDuration, now, ctxDone,
                   parentDone, runPc, workersStarted, rampUpStarted,
                   tickPending, tickerOn, lagged, wgCount, metrics>>
    /\ UNCHANGED <<benchVars, mainVars, mockVars, reduceVars, hitterVars>>

\* worker, second select: the case <-ctx.Done() is ready
AcquireIgnoresCancel == FALSE
AcquireSeesCancel == ctxDone

\* worker, second select: case <-ctx.Done(): return (deferred wg.Done)
WorkerAcquireDone ==
    /\ wAcquire > 0
    /\ AcquireSeesCancel
    /\ wAcquire' = wAcquire - 1
    /\ wgCount' = wgCount - 1
    /\ UNCHANGED <<numUsers, duration, rampUp, rampUpDuration, now, ctxDone,
                   parentDone, runPc, workersStarted, rampUpStarted,
                   tickPending, tickerOn, lagged, wCheck, semaphore, admitted,
                   tasks, metrics>>
    /\ UNCHANGED <<benchVars, mainVars, mockVars, reduceVars, hitterVars>>

taskFrame == <<numUsers, duration, rampUp, rampUpDuration, now, ctxDone,
               parentDone, runPc, workersStarted, rampUpStarted, tickPending,
               tickerOn, lagged, wgCount, wCheck, wAcquire, admitted,
               benchVars, mainVars, mockVars, reduceVars, hitterVars>>

\* where makeRequest continues after the request generator failed
GenFailureDropped == [pc |-> "release", res |-> NoResult]
AfterGenFailure == [pc |-> "record", res |-> GenFailure]

\* makeRequest: req, err := r.requestGen(); httpReq, err := http.NewRequest(...);
\* headers and body (steps local to the task)
TaskPrepare(t) ==
    /\ t.pc = "prepare"
    /\ \/ tasks' = Move(t, AfterGenFailure)
       \/ tasks' = Move(t, [pc |-> "record", res |-> NewRequestFailure])
       \/ tasks' = Move(t, [pc |-> "do", res |-> NoResult])
    /\ UNCHANGED <<taskFrame, semaphore, metrics>>

\* makeRequest: resp, err := r.client.Do(httpReq) returns
TaskDo(t) ==
    /\ t.pc = "do"
    /\ \E lat \in Latencies :
         \/ tasks' = Move(t, [pc |-> "record", res |-> TransportFailure(lat)])
         \/ \E code \in StatusCodes :
              tasks' = Move(t, [pc |-> "record", res |-> Response(code, lat)])
    /\ UNCHANGED <<taskFrame, semaphore, metrics>>

\* recordResult: the counters after `TotalRequests++`
CountTotal(m) == [m EXCEPT !.TotalRequests = @ + 1]

\* recordResult: the success/failure counters
CountOutcomeSuccessOnly(m, result) ==
    IF result.Success THEN [m EXCEPT !.SuccessCount = @ + 1] ELSE m
CountOutcome(m, result) ==
    IF result.Success
      THEN [m EXCEPT !.SuccessCount = @ + 1]
      ELSE [m EXCEPT !.FailureCount = @ + 1]

\* recordResult: latency aggregates and the outcome list
TrackLatencyOnly(m, result) ==
    [m EXCEPT !.TotalLatency = @ + result.Latency,
              !.MaxLatency = IF result.Latency > @ THEN result.Latency ELSE @,
              !.MinLatency = IF @ = 0 \/ result.Latency < @
                               THEN result.Latency ELSE @]
TrackLatency(m, result) ==
    [m EXCEPT !.TotalLatency = @ + result.Latency,
              !.MaxLatency = IF result.Latency > @ THEN result.Latency ELSE @,
              !.MinLatency = IF @ = 0 \/ result.Latency < @
                               THEN result.Latency ELSE @,
              !.Results = Append(@, result)]

\* recordResult: r.metrics.mu.Lock(); r.metrics.TotalRequests++
RecordLock(t) ==
    /\ t.pc = "record"
    /\ ~metrics.mu
    /\ metrics' = [CountTotal(metrics) EXCEPT !.mu = TRUE]
    /\ tasks' = Move(t, [t EXCEPT !.pc = "recording"])
    /\ UNCHANGED <<taskFrame, semaphore>>

\* where makeRequest continues after recordResult: it returns, which runs
\* the deferred release; a failed request is not issued again
RetryFailed(res) ==
    IF res.Success THEN [pc |-> "release", res |-> NoResult]
                   ELSE [pc |-> "prepare", res |-> NoResult]
AfterRecord(res) == [pc |-> "release", res |-> NoResult]

\* recordResult: the rest of the critical section, and the deferred Unlock
RecordUnlock(t) ==
    /\ t.pc = "recording"
    /\ metrics' = [TrackLatency(CountOutcome(metrics, t.res), t.res)
                      EXCEPT !.mu = FALSE]
    /\ tasks' = Move(t, AfterRecord(t.res))
    /\ UNCHANGED <<taskFrame, semaphore>>

\* the tokens left in the semaphore by the deferred receive <-r.semaphore
SlotsKept(sem) == sem
SlotsAfterRelease(sem) == sem - 1

\* makeRequest: defer func() { <-r.semaphore }(), and the task ends
TaskRelease(t) ==
    /\ t.pc = "release"
    /\ semaphore > 0
    /\ semaphore' = SlotsAfterRelease(semaphore)
    /\ tasks' = Ended(t)
    /\ UNCHANGED <<taskFrame, metrics>>

\* the workers Run waits for: r.wg.Wait() returns when the counter is zero
WaitGroupClear == wgCount = 0

\* the value a float64 division by zero yields (NaN or Inf), kept apart from
\* every rate
NaN == 0 - 1

\* float64(a) / float64(b), in whole units
FloatDiv(a, b) == IF b = 0 THEN NaN ELSE a \div b

\* Run: if TotalRequests > 0 { SuccessRate = SuccessCount / TotalRequests * 100 }
SuccessRateUnguarded(m) == FloatDiv(m.SuccessCount * 100, m.TotalRequests)
SuccessRateOf(m) ==
    IF m.TotalRequests > 0
      THEN FloatDiv(m.SuccessCount * 100, m.TotalRequests)
      ELSE m.SuccessRate

\* Run: r.wg.Wait(), the success rate (read without the lock), return
\* (deferred cancel)
RunReturn ==
    /\ runPc = "wait"
    /\ WaitGroupClear
    /\ runPc' = "returned"
    /\ ctxDone' = TRUE
    /\ metrics' = [metrics EXCEPT !.SuccessRate = SuccessRateOf(metrics)]
    /\ UNCHANGED <<numUsers, duration, rampUp, rampUpDuration, now, parentDone,
                   workersStarted, rampUpStarted, tickPending, tickerOn,
                   lagged, wgCount, wCheck, wAcquire, semaphore, admitted,
                   tasks>>
    /\ UNCHANGED <<benchVars, mainVars, mockVars, reduceVars, hitterVars>>

RunnerNext ==
    \/ RunStart
    \/ RampTick
    \/ RampCtxDone
    \/ ClockTick
    \/ ParentCancel
    \/ WorkerCheckDone
    \/ WorkerCheckDefault
    \/ WorkerAcquire
    \/ WorkerAcquireDone
    \/ \E t \in TaskStates : TaskPrepare(t)
    \/ \E t \in TaskStates : TaskDo(t)
    \/ \E t \in TaskStates : RecordLock(t)
    \/ \E t \in TaskStates : RecordUnlock(t)
    \/ \E t \in TaskStates : TaskRelease(t)
    \/ RunReturn

Next == RunnerNext

Spec == Init /\ [][Next]_vars

\* ================================================= runBenchmarks, sampler
\* the Runner's fields and Run's locals reset; pc is where Run stands
RunnerReset(pc) ==
    /\ now' = 0
    /\ ctxDone' = FALSE
    /\ parentDone' = FALSE
    /\ runPc' = pc
    /\ workersStarted' = 0
    /\ rampUpStarted' = FALSE
    /\ tickPending' = FALSE
    /\ tickerOn' = FALSE
    /\ lagged' = FALSE
    /\ wgCount' = 0
    /\ wCheck' = 0
    /\ wAcquire' = 0
    /\ semaphore' = 0
    /\ admitted' = 0
    /\ tasks' = EmptyBag
    /\ metrics' = NewMetrics
    /\ UNCHANGED <<numUsers, duration, rampUp, rampUpDuration>>

\* the state of a Runner returned by NewRunner, handed to Run
NewRunner == RunnerReset("start")

\* runBenchmarks is called with the provider list and the flags (users mode)
BenchInit ==
    /\ numUsers = 1
    /\ duration = 1
    /\ rampUp = FALSE
    /\ rampUpDuration = 0
    /\ now = 0
    /\ ctxDone = FALSE
    /\ parentDone = FALSE
    /\ runPc = "none"
    /\ workersStarted = 0
    /\ rampUpStarted = FALSE
    /\ tickPending = FALSE
    /\ tickerOn = FALSE
    /\ lagged = FALSE
    /\ wgCount = 0
    /\ wCheck = 0
    /\ wAcquire = 0
    /\ semaphore = 0
    /\ admitted = 0
    /\ tasks = EmptyBag
    /\ metrics = NewMetrics
    /\ \E n \in 1..MaxProviders : providers \in [1..n -> BOOLEAN]
    /\ cooldown \in BOOLEAN
    /\ target = 1
    /\ bpc = "setup"
    /\ orphans = 0
    /\ stopClosed = FALSE
    /\ monPc = "none"
    /\ monTickPending = FALSE
    /\ monTickerOn = FALSE
    /\ memClock = 0
    /\ memStat = 0
    /\ serverMemStats = <<>>
    /\ monStarved = FALSE
    /\ samplesAfterStop = 0
    /\ lookupFailed = FALSE
    /\ results = <<>>
    /\ MainIdle
    /\ MockIdle
    /\ ReduceIdle
    /\ HitterIdle

\* loop body, lines up to runner.Run(ctx): fresh sample slice, mutex, stop
\* channel and wait group; the sampler goroutine when the provider has a
\* port; the attack context; NewRunner and the call of Run.
BenchSetup ==
    /\ bpc = "setup"
    /\ serverMemStats' = <<>>
    /\ stopClosed' = FALSE
    /\ samplesAfterStop' = 0
    /\ monStarved' = FALSE
    /\ monTickPending' = FALSE
    /\ monTickerOn' = FALSE
    /\ memClock' = 0
    /\ memStat' = 0
    /\ monPc' = IF providers[target] THEN "lookup" ELSE "none"
    /\ NewRunner
    /\ bpc' = "attack"
    /\ UNCHANGED <<providers, cooldown, target, orphans, results>>
    /\ lookupFailed' = FALSE
    /\ UNCHANGED <<mainVars, mockVars, reduceVars, hitterVars>>

\* runner.Run(ctx) has returned and the Runner is dropped (the conversion of
\* its Metrics into the summary is local to the loop body and is not
\* followed here).  The request tasks Run left in flight keep running.
BenchAttackDone ==
    /\ bpc = "attack"
    /\ runPc = "returned"
    /\ orphans' = orphans + InFlight
    /\ RunnerReset("none")
    /\ bpc' = "stop"
    /\ UNCHANGED <<providers, cooldown, target, stopClosed, monPc,
                   monTickPending, monTickerOn, memClock, memStat,
                   serverMemStats, monStarved, samplesAfterStop, results>>
    /\ UNCHANGED <<lookupFailed, mainVars, mockVars, reduceVars, hitterVars>>

\* whether the loop body signals the sampler: if provider.Port != ""
StopsAlways(hasPort) == TRUE
StopsSampler(hasPort) == hasPort

\* if provider.Port != "" { close(stopMonitoring); ... }
BenchStop ==
    /\ bpc = "stop"
    /\ IF StopsSampler(providers[target])
         THEN stopClosed' = TRUE /\ bpc' = "join"
         ELSE bpc' = "copy" /\ UNCHANGED stopClosed
    /\ UNCHANGED <<runnerVars, providers, cooldown, target, orphans, monPc,
                   monTickPending, monTickerOn, memClock, memStat,
                   serverMemStats, monStarved, samplesAfterStop, results>>
    /\ UNCHANGED <<lookupFailed, mainVars, mockVars, reduceVars, hitterVars>>

\* wg.Wait() returns: the sampler goroutine has run its deferred wg.Done()
NoJoin == TRUE
SamplerJoined == monPc = "exited"

\* wg.Wait() for the sampler goroutine
BenchJoin ==
    /\ bpc = "join"
    /\ SamplerJoined
    /\ bpc' = "copy"
    /\ UNCHANGED <<runnerVars, providers, cooldown, target, orphans,
                   stopClosed, monPc, monTickPending, monTickerOn, memClock,
                   memStat, serverMemStats, monStarved, samplesAfterStop,
                   results>>
    /\ UNCHANGED <<lookupFailed, mainVars, mockVars, reduceVars, hitterVars>>

\* the test before the sleep: i < len(providers)-1 && cooldown > 0, with i
\* counted from 1 here and cd the outcome of cooldown > 0
SleepsAfterLast(i, n, cd) == cd
Sleeps(i, n, cd) == i < n /\ cd

\* the end of the loop body: the next provider, or return results
LoopEnd ==
    IF target < Len(providers)
      THEN bpc' = "setup" /\ target' = target + 1
      ELSE bpc' = "done" /\ UNCHANGED target

\* the copy of the samples under memMutex, the BenchmarkResult, and the
\* branch on the cooldown
BenchCopy ==
    /\ bpc = "copy"
    /\ results' = Append(results, [ProviderName |-> target,
                                   ServerMemoryStats |-> serverMemStats])
    /\ IF Sleeps(target, Len(providers), cooldown)
         THEN bpc' = "cooldown" /\ UNCHANGED target
         ELSE LoopEnd
    /\ UNCHANGED <<runnerVars, providers, cooldown, orphans, stopClosed,
                   monPc, monTickPending, monTickerOn, memClock, memStat,
                   serverMemStats, monStarved, samplesAfterStop>>
    /\ UNCHANGED <<lookupFailed, mainVars, mockVars, reduceVars, hitterVars>>

\* time.Sleep(cooldown) returns
BenchCooldownEnd ==
    /\ bpc = "cooldown"
    /\ LoopEnd
    /\ UNCHANGED <<runnerVars, providers, cooldown, orphans, stopClosed,
                   monPc, monTickPending, monTickerOn, memClock, memStat,
                   serverMemStats, monStarved, samplesAfterStop, results>>
    /\ UNCHANGED <<lookupFailed, mainVars, mockVars, reduceVars, hitterVars>>

\* a request task of the current Runner runs makeRequest to its end: the
\* outcome goes to the Runner's Metrics (followed in Spec, not here) and the
\* deferred receive releases the slot
TaskEnds(t) ==
    /\ t.pc = "prepare"
    /\ semaphore > 0
    /\ semaphore' = SlotsAfterRelease(semaphore)
    /\ tasks' = Ended(t)
    /\ UNCHANGED <<taskFrame, metrics>>

\* a request task of a Runner whose Run has returned runs to its end
OrphanEnd ==
    /\ orphans > 0
    /\ orphans' = orphans - 1
    /\ UNCHANGED <<runnerVars, providers, cooldown, target, bpc, stopClosed,
                   monPc, monTickPending, monTickerOn, memClock, memStat,
                   serverMemStats, monStarved, samplesAfterStop, results>>
    /\ UNCHANGED <<lookupFailed, mainVars, mockVars, reduceVars, hitterVars>>

\* where the sampler goroutine stands after getProcessByPort's error: it has
\* logged the warning and returned
AfterLookupErrorWaits == "select"
AfterLookupError == "exited"

monFrame == <<runnerVars, providers, cooldown, target, bpc, orphans, results,
              mainVars, mockVars, reduceVars, hitterVars>>

\* the sampler goroutine: getProcessByPort; on an error it logs and returns,
\* else it enters monitorServerMemory (NewTicker)
MonLookup ==
    /\ monPc = "lookup"
    /\ \/ monPc' = AfterLookupError /\ lookupFailed' = TRUE
          /\ UNCHANGED monTickerOn
       \/ monPc' = "select" /\ monTickerOn' = TRUE /\ UNCHANGED lookupFailed
    /\ UNCHANGED <<monFrame, stopClosed, monTickPending, memClock, memStat,
                   serverMemStats, monStarved, samplesAfterStop>>

\* monitorServerMemory, select: case <-stop is ready
StopReadyAtTick == stopClosed /\ monTickPending
StopReady == stopClosed

\* the sampler goroutine can take a step
MonRunnable ==
    \/ monPc \in {"lookup", "append"}
    \/ monPc = "select" /\ (StopReady \/ monTickPending)

\* one period of the sampler's ticker passes
MonTickFire ==
    /\ monTickerOn
    /\ memClock < MaxMemTicks
    /\ memClock' = memClock + 1
    /\ monTickPending' = TRUE
    /\ monStarved' = (monStarved \/ MonRunnable)
    /\ UNCHANGED <<monFrame, stopClosed, monPc, monTickerOn, memStat,
                   serverMemStats, samplesAfterStop>>
    /\ UNCHANGED lookupFailed

\* monitorServerMemory: case <-stop: return (deferred ticker.Stop, wg.Done)
MonSelectStop ==
    /\ monPc = "select"
    /\ StopReady
    /\ monPc' = "exited"
    /\ monTickerOn' = FALSE
    /\ UNCHANGED <<monFrame, stopClosed, monTickPending, memClock, memStat,
                   serverMemStats, monStarved, samplesAfterStop>>
    /\ UNCHANGED lookupFailed

\* monitorServerMemory: case <-ticker.C: MemoryInfo fails (continue), or the
\* ServerMemStat is built with Timestamp: time.Now()
MonSelectTick ==
    /\ monPc = "select"
    /\ monTickPending
    /\ monTickPending' = FALSE
    /\ \/ UNCHANGED <<monPc, memStat>>
       \/ monPc' = "append" /\ memStat' = memClock
    /\ UNCHANGED <<monFrame, stopClosed, monTickerOn, memClock,
                   serverMemStats, monStarved, samplesAfterStop>>
    /\ UNCHANGED lookupFailed

\* *stats = append(*stats, memStat)
PrependSample(stats, stat) == <<stat>> \o stats
AppendSample(stats, stat) == Append(stats, stat)

\* monitorServerMemory: mutex.Lock(); append; mutex.Unlock()
MonAppend ==
    /\ monPc = "append"
    /\ serverMemStats' = AppendSample(serverMemStats, [Timestamp |-> memStat])
    /\ samplesAfterStop' = samplesAfterStop + (IF stopClosed THEN 1 ELSE 0)
    /\ monPc' = "select"
    /\ UNCHANGED <<monFrame, stopClosed, monTickPending, monTickerOn,
                   memClock, memStat, monStarved>>
    /\ UNCHANGED lookupFailed

\* one step of runBenchmarks, of the sampler or of the Runner under attack;
\* the attack context ends Run as Run's own deadline does (ParentCancel, Spec)
BenchNext ==
    \/ BenchSetup
    \/ BenchAttackDone
    \/ BenchStop
    \/ BenchJoin
    \/ BenchCopy
    \/ BenchCooldownEnd
    \/ OrphanEnd
    \/ MonLookup
    \/ MonTickFire
    \/ MonSelectStop
    \/ MonSelectTick
    \/ MonAppend
    \/ RunStart
    \/ ClockTick
    \/ WorkerCheckDone
    \/ WorkerCheckDefault
    \/ WorkerAcquire
    \/ WorkerAcquireDone
    \/ \E t \in TaskStates : TaskEnds(t)
    \/ RunReturn

SpecBench == BenchInit /\ [][BenchNext]_vars

\* ========================================= main and the rate-mode attack
\* SpecMain follows main from the parsed flags to the call of saveResults:
\* the validation of the flags, and for each provider the choice of the
\* engine and, in rate mode, the loop over the results of the vegeta attack.
\* Runner.Run is one step here (it is followed in Spec and SpecBench) and the
\* providers have no port, so no sampler is started.

\* the Runner's variables while no Runner exists
RunnerIdle ==
    /\ numUsers = 1
    /\ now = 0
    /\ ctxDone = FALSE
    /\ parentDone = FALSE
    /\ runPc = "none"
    /\ workersStarted = 0
    /\ rampUpStarted = FALSE
    /\ tickPending = FALSE
    /\ tickerOn = FALSE
    /\ lagged = FALSE
    /\ wgCount = 0
    /\ wCheck = 0
    /\ wAcquire = 0
    /\ semaphore = 0
    /\ admitted = 0
    /\ tasks = EmptyBag
    /\ metrics = NewMetrics

\* the sampler's variables while no sampler exists
SamplerIdle ==
    /\ orphans = 0
    /\ stopClosed = FALSE
    /\ monPc = "none"
    /\ monTickPending = FALSE
    /\ monTickerOn = FALSE
    /\ memClock = 0
    /\ memStat = 0
    /\ serverMemStats = <<>>
    /\ monStarved = FALSE
    /\ samplesAfterStop = 0
    /\ lookupFailed = FALSE

\* initializeProviders: the provider names, in order
ProviderNames == <<"OpenAI", "Bifrost", "Litellm", "Portkey", "Helicone">>

\* main after flag.Parse(): any integers for --rate and --users, the ramp-up
\* flags, one second (a ticker period here) of --duration
MainInit ==
    /\ MockIdle
    /\ ReduceIdle
    /\ HitterIdle
    /\ rate \in -1..MaxFlag
    /\ users \in -1..MaxFlag
    /\ duration = 1
    /\ rampUp \in BOOLEAN
    /\ rampUpDuration \in 0..2
    /\ mainPc = "validate"
    /\ \E n \in 1..MaxProviders : providers = [i \in 1..n |-> FALSE]
    /\ cooldown = FALSE
    /\ target = 0
    /\ bpc = "none"
    /\ results = <<>>
    /\ attack = NoAttack
    /\ outputFile = [kind |-> "absent", doc |-> <<>>]
    /\ resultsMap = <<>>
    /\ written = <<>>
    /\ RunnerIdle
    /\ SamplerIdle

mainFrame == <<runnerVars, providers, cooldown, bpc, orphans, stopClosed,
               monPc, monTickPending, monTickerOn, memClock, memStat,
               serverMemStats, monStarved, samplesAfterStop, lookupFailed,
               rate, users, outputFile, resultsMap, written, mockVars, reduceVars, hitterVars>>

\* main: the two checks of --rate against --users
ModeRejected == (rate > 0 /\ users > 0) \/ (rate = 0 /\ users = 0)

\* main: the checks of the ramp-up flags
RampRejected ==
    (rampUp \/ rampUpDuration > 0) /\
        (users = 0 \/ ~rampUp \/ rampUpDuration = 0 \/ rampUpDuration > duration)

\* main: the validation of the flags; log.Fatalf exits the process
MainValidate ==
    /\ mainPc = "validate"
    /\ IF ModeRejected \/ RampRejected
         THEN mainPc' = "fatal" /\ UNCHANGED target
         ELSE mainPc' = "setup" /\ target' = 1
    /\ UNCHANGED <<mainFrame, attack, results>>

\* runBenchmarks, loop body up to the branch on the mode: users > 0 runs the
\* Runner, anything else the vegeta attacker
MainSetup ==
    /\ mainPc = "setup"
    /\ IF users > 0
         THEN /\ attack' = [NoAttack EXCEPT !.engine = "users"]
              /\ mainPc' = "run"
         ELSE /\ attack' = [NoAttack EXCEPT !.engine = "rate", !.open = TRUE,
                                            !.loop = "range"]
              /\ mainPc' = "attack"
    /\ UNCHANGED <<mainFrame, target, results>>

\* users mode: runner.Run(ctx) returns and its Metrics are converted;
\* metrics.Requests is the TotalRequests of the Runner
MainRunReturns ==
    /\ mainPc = "run"
    /\ \E n \in 0..MaxHits : attack' = [attack EXCEPT !.added = n]
    /\ mainPc' = "finalize"
    /\ UNCHANGED <<mainFrame, target, results>>

\* rate mode: the attacker issues one more hit while the attack lasts
AttackHit ==
    /\ mainPc = "attack"
    /\ attack.open
    /\ attack.added + attack.inFlight < MaxHits
    /\ attack' = [attack EXCEPT !.inFlight = @ + 1,
                                !.attempted = IF attack.timedOut THEN @ ELSE @ + 1]
    /\ UNCHANGED <<mainFrame, mainPc, target, results>>

\* rate mode: the attack duration is over, no further hit is issued
AttackOver ==
    /\ mainPc = "attack"
    /\ attack.open
    /\ attack' = [attack EXCEPT !.open = FALSE]
    /\ UNCHANGED <<mainFrame, mainPc, target, results>>

\* the deadline of context.WithTimeout(Background, timeout) passes
CtxTimeout ==
    /\ mainPc = "attack"
    /\ ~attack.timedOut
    /\ attack' = [attack EXCEPT !.timedOut = TRUE]
    /\ UNCHANGED <<mainFrame, mainPc, target, results>>

\* for res := range attacker.Attack(...): a result arrives; metrics.Add(res)
LoopReceive ==
    /\ mainPc = "attack"
    /\ attack.loop = "range"
    /\ attack.inFlight > 0
    /\ attack' = [attack EXCEPT !.inFlight = @ - 1, !.added = @ + 1,
                                !.loop = "check"]
    /\ UNCHANGED <<mainFrame, mainPc, target, results>>

\* dropReasons["context_timeout"] after the ctx.Done() case of the loop
TimeoutPerPending(a) == a.contextTimeout + 1 + a.inFlight
TimeoutRecorded(a) == a.contextTimeout + 1

\* the select after metrics.Add: case <-ctx.Done() records the timeout and
\* jumps to EndAttack (metrics.Close()); default continues the loop
LoopCheck ==
    /\ mainPc = "attack"
    /\ attack.loop = "check"
    /\ IF attack.timedOut
         THEN /\ attack' = [attack EXCEPT !.contextTimeout = TimeoutRecorded(attack),
                                          !.loop = "aborted"]
              /\ mainPc' = "finalize"
         ELSE /\ attack' = [attack EXCEPT !.loop = "range"]
              /\ UNCHANGED mainPc
    /\ UNCHANGED <<mainFrame, target, results>>

\* the attack is over and every result has been received: the channel is
\* closed, the range loop ends, metrics.Close()
LoopExhausted ==
    /\ mainPc = "attack"
    /\ attack.loop = "range"
    /\ ~attack.open
    /\ attack.inFlight = 0
    /\ attack' = [attack EXCEPT !.loop = "exhausted"]
    /\ mainPc' = "finalize"
    /\ UNCHANGED <<mainFrame, target, results>>

\* runBenchmarks, after the attack: no port, so no sampler to stop; the empty
\* sample copy, the BenchmarkResult, the next provider or the return to main
MainFinalize ==
    /\ mainPc = "finalize"
    /\ results' = Append(results,
                     [ProviderName |-> ProviderNames[target],
                      Requests |-> attack.added,
                      ServerMemoryStats |-> <<>>,
                      DropReasons |-> [context_timeout |-> attack.contextTimeout]])
    /\ IF target < Len(providers)
         THEN mainPc' = "setup" /\ target' = target + 1
         ELSE mainPc' = "save" /\ UNCHANGED target
    /\ UNCHANGED <<mainFrame, attack>>

MainNext ==
    \/ MainValidate
    \/ MainSetup
    \/ MainRunReturns
    \/ AttackHit
    \/ AttackOver
    \/ CtxTimeout
    \/ LoopReceive
    \/ LoopCheck
    \/ LoopExhausted
    \/ MainFinalize

SpecMain == MainInit /\ [][MainNext]_vars

\* ============================================================= saveResults
\* RSS is in bytes; the readings are whole MiB, so that the float64 division
\* by (1024 * 1024) is exact
MiB == 1024 * 1024
ToMB(bytes) == bytes \div MiB

RECURSIVE PeakMem(_)
\* saveResults: peakMem over res.ServerMemoryStats
LastSample(stats) == IF stats = <<>> THEN 0 ELSE stats[Len(stats)].RSS
PeakMem(stats) ==
    IF stats = <<>> THEN 0 ELSE Max(Head(stats).RSS, PeakMem(Tail(stats)))

RECURSIVE TotalMem(_)
\* saveResults: totalMem over res.ServerMemoryStats
TotalMem(stats) ==
    IF stats = <<>> THEN 0 ELSE Head(stats).RSS + TotalMem(Tail(stats))

\* saveResults: avgMem = total / count / (1024 * 1024), the quotient kept as
\* the fraction <<total, count * MiB>>; it stays 0 when there is no sample
AvgMem(stats) ==
    IF Len(stats) > 0 THEN <<TotalMem(stats), Len(stats) * MiB>> ELSE <<0, 1>>

\* SpecSave follows saveResults(results, outputFile) on the results
\* runBenchmarks returns: one BenchmarkResult per provider, in order.  Of the
\* thirteen fields of SerializableResult the model keeps requests and the two
\* memory fields; the others are copied from the vegeta metrics the way
\* requests is.

\* strings.ToLower on the provider names
ToLower(name) ==
    CASE name = "OpenAI" -> "openai"
      [] name = "Bifrost" -> "bifrost"
      [] name = "Litellm" -> "litellm"
      [] name = "Portkey" -> "portkey"
      [] name = "Helicone" -> "helicone"
      [] OTHER -> name

\* the fields of SerializableResult, by their JSON names
SchemaFields == {"requests", "server_peak_memory_mb", "server_avg_memory_mb"}

\* the zero value of a field of SerializableResult
ZeroValue(f) == IF f = "server_avg_memory_mb" THEN <<0, 1>> ELSE 0

\* entries found in a result file: one written by saveResults, one to which
\* a field outside the schema was added, one that lacks fields of the schema
StoredSummary == [requests |-> 7, server_peak_memory_mb |-> 5,
                  server_avg_memory_mb |-> <<5, 1>>]
StoredWithNote == [requests |-> 7, server_peak_memory_mb |-> 5,
                   server_avg_memory_mb |-> <<5, 1>>, note |-> "baseline"]
StoredPartial == [requests |-> 7]
RawEntries == {StoredSummary, StoredWithNote, StoredPartial}

\* the keys of the result files of the model
StoredKeys == {"openai", "x"}

\* the JSON objects a result file may hold
Docs == UNION {[K -> RawEntries] : K \in SUBSET StoredKeys}

\* the result file as os.Stat / os.ReadFile / sonic.Unmarshal find it; for an
\* unparsable file doc holds the entries decoded before the error
Files ==
    {[kind |-> "absent", doc |-> <<>>], [kind |-> "unreadable", doc |-> <<>>]}
    \cup {[kind |-> k, doc |-> d] : k \in {"unparsable", "parsable"}, d \in Docs}

\* sonic.Unmarshal of one entry into SerializableResult: fields of the schema
\* are read, other fields are ignored, absent fields keep the zero value
Decode(raw) ==
    [f \in SchemaFields |-> IF f \in DOMAIN raw THEN raw[f] ELSE ZeroValue(f)]

\* sonic.Unmarshal(fileData, &resultsMap)
DecodeDoc(doc) == [k \in DOMAIN doc |-> Decode(doc[k])]

\* resultsMap after sonic.Unmarshal returned an error
PartialKept(partial) == DecodeDoc(partial)
AfterParseError(partial) == <<>>

\* the samples of one provider: the first k readings of the server's RSS,
\* which goes up and down (3, 1, 5, 3, ... MiB)
Reading(i) == IF i % 2 = 1 THEN i + 2 ELSE i - 1
SampleRuns ==
    {[i \in 1..k |-> [Timestamp |-> i, RSS |-> Reading(i) * MiB]] :
        k \in 0..MaxMemTicks}

\* runBenchmarks has returned its results to main
SaveInit ==
    /\ MockIdle
    /\ ReduceIdle
    /\ HitterIdle
    /\ \E n \in 1..MaxProviders :
         \E q \in [1..n -> 0..1], m \in [1..n -> SampleRuns] :
           results = [i \in 1..n |->
                        [ProviderName |-> ProviderNames[i],
                         Requests |-> q[i],
                         ServerMemoryStats |-> m[i],
                         DropReasons |-> [context_timeout |-> 0]]]
    /\ mainPc = "save"
    /\ rate = 0
    /\ users = 1
    /\ attack = NoAttack
    /\ outputFile = [kind |-> "absent", doc |-> <<>>]
    /\ resultsMap = <<>>
    /\ written = <<>>
    /\ providers = <<>>
    /\ cooldown = FALSE
    /\ target = 0
    /\ bpc = "none"
    /\ duration = 1
    /\ rampUp = FALSE
    /\ rampUpDuration = 0
    /\ RunnerIdle
    /\ SamplerIdle

saveFrame == <<runnerVars, providers, cooldown, bpc, orphans, stopClosed,
               monPc, monTickPending, monTickerOn, memClock, memStat,
               serverMemStats, monStarved, samplesAfterStop, lookupFailed,
               results, rate, users, attack, mockVars, reduceVars, hitterVars>>

\* saveResults: the empty map, os.Stat, os.ReadFile, sonic.Unmarshal
SaveRead ==
    /\ mainPc = "save"
    /\ \E f \in Files :
         /\ outputFile' = f
         /\ resultsMap' = CASE f.kind = "parsable" -> DecodeDoc(f.doc)
                            [] f.kind = "unparsable" -> AfterParseError(f.doc)
                            [] OTHER -> <<>>
    /\ target' = 1
    /\ mainPc' = "merge"
    /\ UNCHANGED <<saveFrame, written>>

\* saveResults: the SerializableResult built from one BenchmarkResult
Summarize(res) ==
    [requests |-> res.Requests,
     server_peak_memory_mb |-> ToMB(PeakMem(res.ServerMemoryStats)),
     server_avg_memory_mb |-> AvgMem(res.ServerMemoryStats)]

\* resultsMap[key] = summary
PutAccumulated(m, key, summary) ==
    [k \in DOMAIN m \cup {key} |->
        IF k # key THEN m[k]
        ELSE IF key \in DOMAIN m
               THEN [summary EXCEPT !.requests = @ + m[key].requests]
               ELSE summary]
Put(m, key, summary) ==
    [k \in DOMAIN m \cup {key} |-> IF k = key THEN summary ELSE m[k]]

\* saveResults: one iteration of `for _, res := range results`, or its end
SaveMerge ==
    /\ mainPc = "merge"
    /\ IF target <= Len(results)
         THEN /\ resultsMap' = Put(resultsMap,
                                   ToLower(results[target].ProviderName),
                                   Summarize(results[target]))
              /\ target' = target + 1
              /\ UNCHANGED mainPc
         ELSE /\ mainPc' = "write"
              /\ UNCHANGED <<resultsMap, target>>
    /\ UNCHANGED <<saveFrame, outputFile, written>>

\* saveResults: sonic.MarshalIndent writes every field of every entry, and
\* os.WriteFile; log.Fatalf when the file cannot be written
SaveWrite ==
    /\ mainPc = "write"
    /\ \/ written' = resultsMap /\ mainPc' = "saved"
       \/ mainPc' = "fatal" /\ UNCHANGED written
    /\ UNCHANGED <<saveFrame, outputFile, resultsMap, target>>

SaveNext ==
    \/ SaveRead
    \/ SaveMerge
    \/ SaveWrite

SpecSave == SaveInit /\ [][SaveNext]_vars

\* the keys of the providers of this run
TargetKeys == {ToLower(results[i].ProviderName) : i \in 1..Len(results)}

\* ================================================================= claims
\* ---- C1: at most numUsers request tasks hold an admission slot, hence at
\* most numUsers HTTP calls execute, in every reachable state of Run (with
\* or without ramp-up).
C1_AtMostNInFlight ==
    /\ InFlight <= numUsers
    /\ Executing <= numUsers
    /\ semaphore <= numUsers

\* the gate is saturated: numUsers >= 2 calls execute at once, under ramp-up
C1_Witness == rampUp /\ numUsers >= 2 /\ Executing = numUsers

\* ---- C2: when Run has returned no request task is in flight and every
\* admitted request has its outcome in the returned Metrics.
C2_RunJoinsEveryTask ==
    runPc = "returned" =>
        /\ InFlight = 0
        /\ metrics.TotalRequests = admitted
        /\ Len(metrics.Results) = admitted

\* ---- C3: every request task releases exactly the one slot it acquired, on
\* each exit path: the tokens in the semaphore are exactly the tasks that
\* have not ended, a task about to release finds a token, and the semaphore
\* is empty once all tasks have ended.
C3_SlotPerTask ==
    /\ semaphore = InFlight
    /\ (CountAt({"release"}) > 0 => semaphore > 0)
    /\ (InFlight = 0 => semaphore = 0)

\* two tasks have ended, one on the generation-failure path and one with a
\* response, and all slots are back
C3_Witness ==
    /\ admitted >= 2
    /\ InFlight = 0
    /\ semaphore = 0
    /\ \E i, j \in 1..Len(metrics.Results) :
          /\ metrics.Results[i] = GenFailure
          /\ metrics.Results[j].Success

\* ---- C4: whenever no recordResult call is inside its critical section,
\* TotalRequests = SuccessCount + FailureCount, for any mix of outcomes.
C4_TotalIsSuccessPlusFailure ==
    ~metrics.mu =>
        metrics.TotalRequests = metrics.SuccessCount + metrics.FailureCount

\* successes and failures have both been recorded
C4_Witness ==
    /\ ~metrics.mu
    /\ metrics.SuccessCount >= 1
    /\ metrics.FailureCount >= 1

\* ---- C5: once the context of Run is cancelled no request is admitted any
\* more: no step taken from a cancelled state starts a request task.
C5_NoAdmissionAfterCancel == [][ctxDone => admitted' = admitted]_vars

\* ---- C6: with ramp-up and duration >= rampUpDuration (the caller's context
\* not cancelled, every tick handled before the next one fires): before
\* rampUpDuration the workers started are within one tick of
\* floor(numUsers * t / rampUpDuration), and from one tick after
\* rampUpDuration on, all numUsers workers are started.
C6_RampSchedule ==
    (rampUp /\ runPc # "start" /\ ~parentDone /\ ~lagged) =>
        /\ now < rampUpDuration =>
              /\ workersStarted >= (numUsers * (now - 1)) \div rampUpDuration
              /\ workersStarted <=
                    Max(1, (numUsers * (now + 1)) \div rampUpDuration)
        /\ (now > rampUpDuration /\ ~(runPc = "ramp" /\ tickPending)) =>
              workersStarted = numUsers

\* ---- C7: with ramp-up, before rampUpDuration the request tasks in flight
\* never exceed the ramp target max(1, floor(numUsers * t / rampUpDuration)).
C7_RampBoundsInFlight ==
    (rampUp /\ now < rampUpDuration) => InFlight <= TargetWorkers(now)

\* ---- C8: providers are benchmarked one at a time: during the attack phase
\* of a provider no request task of a Runner that has returned, that is, of an
\* earlier provider, is still running.
C8_OneTargetAtATime == bpc = "attack" => orphans = 0

\* ---- C9: once stopMonitoring is closed the sampler never has to wait for
\* its ticker to notice it, and (the goroutine never being left runnable for
\* a whole ticker period) it appends at most one more sample before it
\* returns.
C9_SamplerStopsWithinOneTick ==
    /\ (stopClosed /\ monPc \notin {"none", "exited"}) => MonRunnable
    /\ ~monStarved => samplesAfterStop <= 1

\* the sampler has returned after the stop signal, having appended one
\* sample after it (a tick was pending when the stop signal came)
C9_Witness ==
    /\ stopClosed
    /\ monPc = "exited"
    /\ ~monStarved
    /\ samplesAfterStop = 1

\* the samples are in non-decreasing order of Timestamp
SortedByTimestamp(stats) ==
    \A i, j \in 1..Len(stats) : i <= j => stats[i].Timestamp <= stats[j].Timestamp

\* ---- C10: within one provider's run the sample sequence is non-decreasing
\* in Timestamp and append-only: it changes only by the sampler appending
\* one sample at the end (a new provider starts with a fresh sequence).
C10_SamplesAppendOnly ==
    /\ [](SortedByTimestamp(serverMemStats))
    /\ [][\/ serverMemStats' = serverMemStats
          \/ /\ monPc = "append"
             /\ serverMemStats' = Append(serverMemStats, [Timestamp |-> memStat])
          \/ bpc = "setup" /\ serverMemStats' = <<>>]_vars

\* two samples taken at different times have been appended
C10_Witness ==
    /\ Len(serverMemStats) >= 2
    /\ serverMemStats[1].Timestamp < serverMemStats[2].Timestamp

\* ---- C11: when getProcessByPort fails for a provider with a port, the
\* sampler goroutine has exited without a ticker and without a sample, so the
\* join after close(stopMonitoring) finds it gone; the provider's result
\* carries no sample and saveResults computes peak 0 and average 0 for it.
C11_LookupFailureIsHarmless ==
    lookupFailed =>
        /\ monPc = "exited"
        /\ ~monTickerOn
        /\ serverMemStats = <<>>
        /\ bpc = "join" => SamplerJoined
        /\ bpc \in {"cooldown", "setup", "done"} =>
              /\ results[Len(results)].ServerMemoryStats = <<>>
              /\ PeakMem(results[Len(results)].ServerMemoryStats) = 0
              /\ AvgMem(results[Len(results)].ServerMemoryStats)[1] = 0

C11_Witness ==
    /\ lookupFailed
    /\ bpc = "done"
    /\ providers[target]
    /\ Len(results) = Len(providers)
    /\ PeakMem(results[Len(results)].ServerMemoryStats) = 0

\* ---- C15: main goes on to benchmark a provider only when exactly one of
\* rate > 0 and users > 0 holds, and then the Runner is the engine iff
\* users > 0 and the rate attacker iff rate > 0.
C15_ExactlyOneMode ==
    /\ mainPc \notin {"validate", "fatal"} => ((rate > 0) # (users > 0))
    /\ attack.engine = "users" => users > 0
    /\ attack.engine = "rate" => rate > 0

\* ---- C16: in rate mode, when the metrics are closed every hit issued before
\* the attack context expired has had its result added to them.
C16_InFlightResultsCollected ==
    (rate > 0 /\ attack.engine = "rate" /\ mainPc = "finalize") =>
        attack.added >= attack.attempted

\* ---- C17 as stated: in rate mode "context_timeout" is recorded exactly
\* once for a provider whose attack context expired during the result loop,
\* and not at all otherwise.
C17_TimeoutRecordedOnceIfExpired ==
    (rate > 0 /\ attack.engine = "rate" /\ mainPc = "finalize") =>
        attack.contextTimeout = (IF attack.timedOut THEN 1 ELSE 0)

\* ---- C17 amended: "context_timeout" is recorded exactly once, whatever the
\* number of results outstanding, when the loop finds the context expired at
\* its check after a received result, and the loop then stops consuming;
\* when the loop ends because the results are exhausted, before the deadline
\* or after it, it is not recorded at all.
C17_TimeoutRecordedOncePerAbort ==
    (rate > 0 /\ attack.engine = "rate") =>
        /\ attack.contextTimeout = (IF attack.loop = "aborted" THEN 1 ELSE 0)
        /\ attack.loop = "aborted" => (attack.timedOut /\ mainPc # "attack")
        /\ attack.loop = "exhausted" =>
              (attack.inFlight = 0 /\ mainPc # "attack")

C17_Witness ==
    /\ rate > 0
    /\ mainPc = "finalize"
    /\ attack.loop = "aborted"
    /\ attack.inFlight >= 1
    /\ attack.contextTimeout = 1

\* ---- C12: after saveResults every entry of a parsable result file whose
\* key is not the lower-cased name of a provider of this run is in the
\* written document exactly as it was in the file.
C12_OtherEntriesUntouched ==
    (mainPc = "saved" /\ outputFile.kind = "parsable") =>
        \A k \in DOMAIN outputFile.doc \ TargetKeys :
            k \in DOMAIN written /\ written[k] = outputFile.doc[k]

\* ---- C13: after saveResults the entry at the lower-cased name of every
\* provider of this run is the summary computed from this run's result,
\* whatever the file held at that key.
C13_TargetEntryReplaced ==
    mainPc = "saved" =>
        \A i \in 1..Len(results) :
            /\ ToLower(results[i].ProviderName) \in DOMAIN written
            /\ written[ToLower(results[i].ProviderName)] = Summarize(results[i])

C13_Witness ==
    /\ mainPc = "saved"
    /\ outputFile.kind = "parsable"
    /\ "openai" \in DOMAIN outputFile.doc
    /\ outputFile.doc["openai"] = StoredWithNote
    /\ written["openai"] = Summarize(results[1])
    /\ written["openai"].requests = 1

\* ---- C14: when the result file is absent, unreadable or unparsable the
\* merge starts from the empty map (entries decoded before a parse error are
\* dropped), saveResults goes on, and the document it writes holds exactly
\* the entries of this run.
C14_BadFileStartsEmpty ==
    outputFile.kind \in {"absent", "unreadable", "unparsable"} =>
        /\ (mainPc = "merge" /\ target = 1) => resultsMap = <<>>
        /\ mainPc \in {"merge", "write", "saved"} =>
              DOMAIN resultsMap \subseteq TargetKeys
        /\ mainPc = "saved" =>
              /\ DOMAIN written = TargetKeys
              /\ \A i \in 1..Len(results) :
                    written[ToLower(results[i].ProviderName)] = Summarize(results[i])

C14_Witness ==
    /\ mainPc = "saved"
    /\ outputFile.kind = "unparsable"
    /\ "x" \in DOMAIN outputFile.doc
    /\ DOMAIN written = TargetKeys

\* ---- C18: every admitted request yields exactly one recorded outcome, a
\* failed one exactly one failure (it is not issued again), and failures stop
\* nothing: until the context of Run is cancelled every started dispatcher
\* worker is still in its loop.
FailedResults(m) == {i \in 1..Len(m.Results) : ~m.Results[i].Success}

C18_FailuresRecordedOnceNeverFatal ==
    /\ ~metrics.mu =>
          /\ Len(metrics.Results) + CountAt({"prepare", "do", "record"}) = admitted
          /\ metrics.FailureCount = Cardinality(FailedResults(metrics))
    /\ ~ctxDone =>
          (wCheck + wAcquire = workersStarted /\ wgCount = workersStarted)

C18_Witness ==
    /\ ~ctxDone
    /\ numUsers = 1
    /\ runPc = "wait"
    /\ metrics.FailureCount = 1
    /\ metrics.Results[1] = TransportFailure(1)
    /\ CountAt({"do"}) = 1
    /\ admitted = 2

\* ---- C19: a recorded Result has Success exactly when its StatusCode is in
\* [200, 300) and its Error is empty; a Result with an Error has StatusCode 0
\* and Success false.  The status codes around both ends of the range are
\* put through the Result that makeRequest builds from a response.
BoundaryCodes == {199, 200, 299, 300}

WellFormedResult(r) ==
    /\ r.Success <=> (r.StatusCode >= 200 /\ r.StatusCode < 300 /\ r.Error = "")
    /\ r.Error # "" => (r.StatusCode = 0 /\ ~r.Success)

C19_SuccessIffStatus2xx ==
    /\ \A i \in 1..Len(metrics.Results) : WellFormedResult(metrics.Results[i])
    /\ \A t \in TaskStates : t.pc \in {"record", "recording"} => WellFormedResult(t.res)
    /\ \A code \in BoundaryCodes : WellFormedResult(Response(code, 1))

C19_Witness ==
    /\ Len(metrics.Results) = 2
    /\ metrics.Results[1] = Response(500, 1)
    /\ metrics.Results[2] = Response(200, 1)

\* ---- C20: runBenchmarks copies the samples, and builds the BenchmarkResult
\* from the copy, only when Run has returned and, for a provider with a
\* port, stopMonitoring is closed and the sampler goroutine has exited; the
\* shared slice does not change after the copy.
C20_CopyAfterJoin ==
    /\ bpc = "copy" =>
          /\ runPc = "none"
          /\ providers[target] => (stopClosed /\ monPc = "exited")
    /\ (bpc \in {"cooldown", "setup", "done"} /\ Len(results) > 0) =>
          results[Len(results)].ServerMemoryStats = serverMemStats

C20_Witness ==
    /\ bpc = "done"
    /\ providers[target]
    /\ stopClosed
    /\ samplesAfterStop = 1
    /\ Len(results[Len(results)].ServerMemoryStats) >= 1
    /\ results[Len(results)].ServerMemoryStats = serverMemStats

\* ---- C21: for each target runBenchmarks goes through its phases in the
\* order setup (where the sampler is started, only for a provider with a
\* port), attack, stop/join/copy (finalizing), cooldown; the next target is
\* entered only from the end of the loop body, after the result of the
\* current one has been appended; stopMonitoring goes from open to closed
\* only in the stop phase, once, and only for a target whose sampler was
\* started.
PhaseAfter(p) ==
    CASE p = "setup" -> {"attack"}
      [] p = "attack" -> {"stop"}
      [] p = "stop" -> {"join", "copy"}
      [] p = "join" -> {"copy"}
      [] p = "copy" -> {"cooldown", "setup", "done"}
      [] p = "cooldown" -> {"setup", "done"}
      [] OTHER -> {}

SamplerStarted == monPc # "none"

C21_PhaseOrder ==
    [][/\ bpc' # bpc => bpc' \in PhaseAfter(bpc)
       /\ target' # target =>
             /\ target' = target + 1
             /\ bpc \in {"copy", "cooldown"}
             /\ bpc' = "setup"
             /\ Len(results') = target
       /\ (bpc = "setup" /\ bpc' = "attack") =>
             (SamplerStarted' <=> providers[target])
       /\ (bpc' \in {"attack", "stop", "join", "copy"}) =>
             Len(results') = target' - 1
       /\ (stopClosed' /\ ~stopClosed) =>
             (bpc = "stop" /\ bpc' = "join" /\ providers[target]
                /\ SamplerStarted)
       /\ (bpc = "stop" /\ bpc' = "copy") => (~SamplerStarted /\ ~stopClosed')
       /\ (stopClosed /\ ~stopClosed') => bpc = "setup"]_vars

C21_Witness ==
    /\ bpc = "done"
    /\ providers = <<TRUE, FALSE>>
    /\ target = 2
    /\ Len(results) = 2
    /\ Len(results[1].ServerMemoryStats) >= 1
    /\ ~stopClosed
    /\ monPc = "none"

\* ---- C22: runBenchmarks sleeps after a target exactly when that target is
\* not the last one and the cooldown is greater than zero; after the last
\* target it returns the results without sleeping.
C22_CooldownIffNotLast ==
    [][/\ (bpc = "copy" /\ bpc' # "copy") =>
             /\ bpc' = "cooldown" <=> (target < Len(providers) /\ cooldown)
             /\ target = Len(providers) =>
                   (bpc' = "done" /\ Len(results') = Len(providers))
       /\ (bpc' = "cooldown" /\ bpc # "cooldown") => bpc = "copy"
       /\ (bpc = "cooldown" /\ bpc' # "cooldown") =>
             (bpc' = "setup" /\ target' = target + 1)]_vars

C22_Witness ==
    /\ bpc = "cooldown"
    /\ cooldown
    /\ target = 1
    /\ Len(providers) = 2
    /\ Len(results) = 1

\* ---- C23: with TotalRequests = 0 the success rate Run reports is 0, and
\* the success ratio and the mean latency runBenchmarks derives from the
\* Runner's Metrics are 0: neither division is evaluated with a zero divisor.

\* runBenchmarks, users mode: meanLatency, a time.Duration (integer) division
MeanOverSuccesses(m) ==
    IF m.SuccessCount > 0 THEN m.TotalLatency \div m.SuccessCount ELSE 0
MeanLatency(m) ==
    IF m.TotalRequests > 0 THEN m.TotalLatency \div m.TotalRequests ELSE 0

\* runBenchmarks, users mode: the vegeta metrics filled from the Runner's
\* Metrics (Success in percent, Mean in ticker periods)
ToVegeta(m) ==
    [Requests |-> m.TotalRequests,
     Success |-> IF m.TotalRequests > 0
                   THEN FloatDiv(m.SuccessCount * 100, m.TotalRequests)
                   ELSE 0,
     Mean |-> MeanLatency(m)]

C23_ZeroRequestsZeroRate ==
    /\ metrics.SuccessRate # NaN
    /\ ToVegeta(metrics).Success # NaN
    /\ metrics.TotalRequests = 0 =>
          /\ metrics.SuccessRate = 0
          /\ ToVegeta(metrics).Requests = 0
          /\ ToVegeta(metrics).Success = 0
          /\ ToVegeta(metrics).Mean = 0

C23_Witness ==
    /\ runPc = "returned"
    /\ ~parentDone
    /\ metrics.TotalRequests = 0
    /\ metrics.SuccessRate = 0
    /\ ToVegeta(metrics).Mean = 0

\* SpecTasks follows one Run without ramp-up and with a deadline of one
\* period: the dispatcher workers and every step of the request tasks.
TasksInit ==
    /\ numUsers \in 1..MaxUsers
    /\ duration = 1
    /\ rampUp = FALSE
    /\ rampUpDuration = 0
    /\ BenchIdle
    /\ MainIdle
    /\ MockIdle
    /\ ReduceIdle
    /\ HitterIdle
    /\ now = 0
    /\ ctxDone = FALSE
    /\ parentDone = FALSE
    /\ runPc = "start"
    /\ workersStarted = 0
    /\ rampUpStarted = FALSE
    /\ tickPending = FALSE
    /\ tickerOn = FALSE
    /\ lagged = FALSE
    /\ wgCount = 0
    /\ wCheck = 0
    /\ wAcquire = 0
    /\ semaphore = 0
    /\ admitted = 0
    /\ tasks = EmptyBag
    /\ metrics = NewMetrics

TasksNext ==
    \/ RunStart
    \/ ClockTick
    \/ ParentCancel
    \/ WorkerCheckDone
    \/ WorkerCheckDefault
    \/ WorkerAcquire
    \/ WorkerAcquireDone
    \/ \E t \in TaskStates : TaskPrepare(t)
    \/ \E t \in TaskStates : TaskDo(t)
    \/ \E t \in TaskStates : RecordLock(t)
    \/ \E t \in TaskStates : RecordUnlock(t)
    \/ \E t \in TaskStates : TaskRelease(t)
    \/ RunReturn

SpecTasks == TasksInit /\ [][TasksNext]_vars

\* ---- C24: a request whose generator fails leaves makeRequest through
\* recordResult: the failure becomes one failed Result (FailureCount + 1,
\* once), the task goes on to release its slot, and the dispatcher workers
\* are not affected: until cancellation each of them is still in its loop.

\* request tasks carrying a generator failure to recordResult
GenFailing ==
    BagCardinality([t \in {x \in TaskStates :
                             x.pc \in {"record", "recording"} /\ x.res = GenFailure}
                      |-> tasks[t]])

\* generator failures in the outcome list
GenRecorded(m) ==
    Cardinality({i \in 1..Len(m.Results) : m.Results[i] = GenFailure})

\* what a step may do to the request tasks on the generator-failure path
GenFailureStep ==
    /\ CountAt({"prepare"})' < CountAt({"prepare"}) =>
          /\ CountAt({"prepare"})' = CountAt({"prepare"}) - 1
          /\ CountAt({"do", "record"})' = CountAt({"do", "record"}) + 1
          /\ semaphore' = semaphore
          /\ metrics' = metrics
    /\ GenFailing' > GenFailing =>
          /\ GenFailing' = GenFailing + 1
          /\ CountAt({"prepare"})' = CountAt({"prepare"}) - 1
          /\ GenRecorded(metrics') = GenRecorded(metrics)
    /\ GenFailing' < GenFailing =>
          /\ GenFailing' = GenFailing - 1
          /\ GenRecorded(metrics') = GenRecorded(metrics) + 1
          /\ metrics'.FailureCount = metrics.FailureCount + 1
          /\ metrics'.SuccessCount = metrics.SuccessCount
          /\ CountAt({"release"})' = CountAt({"release"}) + 1
          /\ semaphore' = semaphore
    /\ GenRecorded(metrics') # GenRecorded(metrics) =>
          GenFailing' = GenFailing - 1

C24_GenFailureRecordedOnce ==
    /\ [](semaphore = InFlight)
    /\ [](~ctxDone => wCheck + wAcquire = workersStarted)
    /\ [][GenFailureStep]_vars

C24_Witness ==
    /\ ~ctxDone
    /\ numUsers = 1
    /\ runPc = "wait"
    /\ metrics.Results = <<GenFailure>>
    /\ metrics.FailureCount = 1
    /\ admitted = 2
    /\ semaphore = 1
    /\ CountAt({"do"}) = 1

\* ======================================================= the mock server
\* SpecMock follows the mock server (mocker/main.go) from flag.Parse(): the
\* flags are any values the flag package accepts, the clock counts whole
\* seconds since startTime, and requests are followed one at a time from the
\* router through the prologue every API handler shares (checkAuth,
\* checkMethod, shouldTriggerTPM, maybeSendRandomProviderError, shouldFail)
\* to the response.  Go's int is kept as a two's-complement integer of
\* IntBits bits, narrower than the machine's so that the checker can count
\* in it; the literals of the code (20, 95, 100) are far from its limits.

MaxTpm == 1
MaxElapsed == 2
IntBits == 12

Modulus == 2 ^ IntBits
MaxInt == (Modulus \div 2) - 1
\* the value an int holds after an arithmetic result x
Wrap(x) == ((x + (Modulus \div 2)) % Modulus) - (Modulus \div 2)

\* the values of -failure-percent and -failure-jitter tried
PercentInputs == {0 - 1, 0, 50, 100, 101}
JitterInputs == {0 - 1, 0, 5, MaxInt}

\* rand.Intn(n) for n > 0: the ends and the middle of [0, n)
IntnDraws(n) == {r \in {0, 1, n \div 2, n - 2, n - 1} : r >= 0 /\ r < n}

\* rand.Intn(2*failureJitter+1) is called with a non-positive argument: panic
JitterPanics == failureJitter > 0 /\ Wrap(2 * failureJitter + 1) <= 0

\* jitterOffset := rand.Intn(2*failureJitter+1) - failureJitter
JitterOffsets ==
    IF failureJitter > 0
      THEN {Wrap(d - failureJitter) : d \in IntnDraws(Wrap(2 * failureJitter + 1))}
      ELSE {0}

\* the offsets a call that does not panic works with (0 where none is drawn)
DrawnOffsets == IF JitterPanics THEN {0} ELSE JitterOffsets

\* effectiveFailurePercent, given the jitter offset drawn
EffectiveFailurePercent(off) ==
    LET base == IF withErrors /\ failurePercent = 0 THEN 20 ELSE failurePercent
        jittered == IF failureJitter > 0 THEN Wrap(base + off) ELSE base
        clamped == Min(Max(jittered, 0), 100)
    IN IF withErrors THEN Min(Max(clamped, 1), 95) ELSE clamped

\* shouldFail, given the jitter offset and the value of rand.Intn(100)
ShouldFailIgnoringMode(off, r) ==
    /\ failurePercent > 0
    /\ LET jittered == IF failureJitter > 0 THEN Wrap(failurePercent + off)
                                             ELSE failurePercent
           actual == IF failureJitter > 0 THEN Min(Max(jittered, 0), 100)
                                          ELSE jittered
       IN actual > 0 /\ r < actual
ShouldFail(off, r) ==
    /\ ~withErrors
    /\ failurePercent > 0
    /\ LET jittered == IF failureJitter > 0 THEN Wrap(failurePercent + off)
                                             ELSE failurePercent
           actual == IF failureJitter > 0 THEN Min(Max(jittered, 0), 100)
                                          ELSE jittered
       IN actual > 0 /\ r < actual

\* shouldTriggerTPM (startTime is set by main before the server listens)
TriggersAtTpmOnly == tpm > 0 /\ elapsedSeconds = tpm
ShouldTriggerTPM == tpm > 0 /\ elapsedSeconds >= tpm

\* checkAuth
CheckAuthMissingOnly(header) == auth # "" => header # ""
CheckAuth(header) == auth # "" => (header # "" /\ header = auth)

\* the paths tried: /health, one path of an API handler, one unknown path
Paths == {"/health", "/v1/chat/completions", "/nope"}
ApiPaths == {"/v1/chat/completions"}
Methods == {"POST", "GET"}
AuthValues == {"", "key"}
Headers == {"", "key", "other"}

\* the statuses of providerErrorCatalog's variants
ProviderErrorStatuses == {400, 401, 429, 500, 503}

\* the request once its response is written
Answered(status, cause) ==
    [req EXCEPT !.pc = "done", !.status = status, !.cause = cause]

\* main: flag.Parse(), startTime = time.Now(), ListenAndServe
MockInit ==
    /\ auth \in AuthValues
    /\ withErrors \in BOOLEAN
    /\ failurePercent \in PercentInputs
    /\ failureJitter \in JitterInputs
    /\ tpm \in 0..MaxTpm
    /\ elapsedSeconds = 0
    /\ tpmTriggeredLogged = FALSE
    /\ req = NoRequest
    /\ efp = NoCall
    /\ tpmAnswered = FALSE
    /\ ReduceIdle
    /\ HitterIdle
    /\ RunnerIdle
    /\ duration = 1
    /\ rampUp = FALSE
    /\ rampUpDuration = 0
    /\ BenchIdle
    /\ MainIdle

mockFrame == <<runnerVars, benchVars, mainVars, reduceVars, hitterVars,
               auth, withErrors, failurePercent, failureJitter, tpm>>

\* a second passes
MockClock ==
    /\ elapsedSeconds < MaxElapsed
    /\ req.pc # "crashed"
    /\ elapsedSeconds' = elapsedSeconds + 1
    /\ UNCHANGED <<mockFrame, tpmTriggeredLogged, req, efp, tpmAnswered>>

\* router: a request arrives and is dispatched on its path
Router ==
    /\ req.pc \in {"none", "done"}
    /\ \E path \in Paths, method \in Methods, header \in Headers :
         LET r == [pc |-> "handler", path |-> path, method |-> method,
                   authorization |-> header, at |-> elapsedSeconds,
                   afterTpm |-> tpmAnswered, status |-> 0, cause |-> ""]
         IN req' = IF path = "/health"
                     THEN [r EXCEPT !.pc = "done", !.status = 200,
                                    !.cause = "health"]
                   ELSE IF path \in ApiPaths
                     THEN r
                   ELSE [r EXCEPT !.pc = "done", !.status = 404,
                                  !.cause = "notfound"]
    /\ UNCHANGED <<mockFrame, elapsedSeconds, tpmTriggeredLogged, efp,
                   tpmAnswered>>

\* handler: if !checkAuth(ctx) || !checkMethod(ctx) { return }
HandlerChecks ==
    /\ req.pc = "handler"
    /\ req' = IF ~CheckAuth(req.authorization) THEN Answered(403, "auth")
              ELSE IF req.method # "POST" THEN Answered(405, "method")
              ELSE [req EXCEPT !.pc = "tpm"]
    /\ UNCHANGED <<mockFrame, elapsedSeconds, tpmTriggeredLogged, efp,
                   tpmAnswered>>

\* handler: if shouldTriggerTPM() { sendErrorResponse(429); return }
HandlerTPM ==
    /\ req.pc = "tpm"
    /\ IF ShouldTriggerTPM
         THEN /\ req' = Answered(429, "tpm")
              /\ tpmTriggeredLogged' = TRUE
              /\ tpmAnswered' = TRUE
         ELSE /\ req' = [req EXCEPT !.pc = "errors"]
              /\ UNCHANGED <<tpmTriggeredLogged, tpmAnswered>>
    /\ UNCHANGED <<mockFrame, elapsedSeconds, efp>>

\* handler: if maybeSendRandomProviderError(ctx, provider) { return }
HandlerProviderError ==
    /\ req.pc = "errors"
    /\ IF ~withErrors
         THEN req' = [req EXCEPT !.pc = "fail"] /\ UNCHANGED efp
         ELSE IF JitterPanics
           THEN /\ req' = [req EXCEPT !.pc = "crashed"]
                /\ efp' = [st |-> "panic", v |-> 0]
           ELSE \E off \in JitterOffsets, r \in IntnDraws(100) :
                  LET rate0 == EffectiveFailurePercent(off)
                  IN /\ efp' = [st |-> "value", v |-> rate0]
                     /\ IF rate0 <= 0 \/ r >= rate0
                          THEN req' = [req EXCEPT !.pc = "fail"]
                          ELSE \E status \in ProviderErrorStatuses :
                                 req' = Answered(status, "provider")
    /\ UNCHANGED <<mockFrame, elapsedSeconds, tpmTriggeredLogged, tpmAnswered>>

\* handler: if shouldFail() { sendErrorResponse(500); return }
HandlerShouldFail ==
    /\ req.pc = "fail"
    /\ IF ~withErrors /\ failurePercent > 0 /\ JitterPanics
         THEN req' = [req EXCEPT !.pc = "crashed"]
         ELSE \E off \in DrawnOffsets, r \in IntnDraws(100) :
                req' = IF ShouldFail(off, r) THEN Answered(500, "generic")
                                             ELSE [req EXCEPT !.pc = "latency"]
    /\ UNCHANGED <<mockFrame, elapsedSeconds, tpmTriggeredLogged, efp,
                   tpmAnswered>>

\* handler: simulateLatency() and the mocked response
HandlerRespond ==
    /\ req.pc = "latency"
    /\ req' = Answered(200, "ok")
    /\ UNCHANGED <<mockFrame, elapsedSeconds, tpmTriggeredLogged, efp,
                   tpmAnswered>>

MockNext ==
    \/ MockClock
    \/ Router
    \/ HandlerChecks
    \/ HandlerTPM
    \/ HandlerProviderError
    \/ HandlerShouldFail
    \/ HandlerRespond

SpecMock == MockInit /\ [][MockNext]_vars

\* ---- C25: with -with-errors, effectiveFailurePercent returns a value in
\* 1..95 whatever -failure-percent and -failure-jitter are (20 for percent 0
\* and 95 for percent 100 when there is no jitter); without -with-errors the
\* value is in 0..100.
InRange(v) == IF withErrors THEN v >= 1 /\ v <= 95 ELSE v >= 0 /\ v <= 100

C25_EffectiveInRange ==
    /\ efp.st # "panic"
    /\ efp.st = "value" => InRange(efp.v)
    /\ ~JitterPanics =>
          \A off \in JitterOffsets : InRange(EffectiveFailurePercent(off))
    /\ (withErrors /\ failureJitter = 0 /\ failurePercent = 0) =>
          EffectiveFailurePercent(0) = 20
    /\ (withErrors /\ failureJitter = 0 /\ failurePercent = 100) =>
          EffectiveFailurePercent(0) = 95

\* ---- C26: with -with-errors no request is answered by the generic failure
\* (shouldFail is false whatever the percentage and the draws are); without
\* -with-errors no request is answered with a provider-specific error.
C26_FailureModesExclusive ==
    /\ withErrors =>
          /\ \A off \in DrawnOffsets, r \in IntnDraws(100) : ~ShouldFail(off, r)
          /\ req.cause # "generic"
    /\ ~withErrors =>
          /\ req.cause # "provider"
          /\ efp = NoCall

C26_Witness ==
    /\ withErrors
    /\ failurePercent = 100
    /\ failureJitter = 5
    /\ req.pc = "done"
    /\ req.cause = "ok"
    /\ efp.st = "value"
    /\ efp.v = 95

\* ---- C27 as stated: with tpm > 0 every request received at or after tpm
\* seconds is answered 429, and no request received after a 429 of the TPM
\* check is answered with a success.
Success(status) == status >= 200 /\ status < 300

PassedChecks(r) == r.path \in ApiPaths /\ CheckAuth(r.authorization) /\ r.method = "POST"

C28_AuthFirstHealthOpen ==
    /\ [](/\ (req.pc = "done" /\ req.path \in ApiPaths
                /\ auth # "" /\ req.authorization # auth) =>
                (req.status = 403 /\ req.cause = "auth")
          /\ req.pc \in {"tpm", "errors", "fail", "latency", "crashed"} =>
                (req.path \in ApiPaths /\ CheckAuth(req.authorization))
          /\ (req.pc = "done" /\ req.path = "/health") =>
                (req.status = 200 /\ req.cause = "health")
          /\ req.cause = "auth" => (auth # "" /\ req.authorization # auth))
    /\ [][/\ (req'.cause = "auth" /\ req' # req) =>
               /\ req.pc = "handler"
               /\ UNCHANGED <<tpmTriggeredLogged, tpmAnswered, efp, elapsedSeconds>>
          /\ (req'.cause = "health" /\ req' # req) =>
               /\ req.pc \in {"none", "done"}
               /\ UNCHANGED <<tpmTriggeredLogged, tpmAnswered, efp, elapsedSeconds>>]_vars

C28_Witness ==
    /\ auth = "key"
    /\ req.pc = "done"
    /\ req.path \in ApiPaths
    /\ req.authorization = "other"
    /\ req.method = "GET"
    /\ req.status = 403
    /\ tpm = 1
    /\ elapsedSeconds >= tpm
    /\ withErrors

\* ================================== the ramp-up schedule and termination
\* SpecSched follows Run with longer ramps and more users than Spec does:
\* the scheduler of runWithRampUp and the dispatcher workers step by step,
\* the request tasks from their start to their end (TaskEnds).  SpecSchedFair
\* adds the scheduling the Go runtime gives: a goroutine that can take a step
\* takes one, time passes, and a select whose ctx.Done() case stays ready
\* takes that case at some point.  Nothing is assumed about the request
\* tasks: an HTTP call may never return.

MaxRampUsers == 3
MaxRampTicks == 3

\* the Runner as NewRunner returns it, Run not yet entered, nothing else
\* studied
RunnerFresh ==
    /\ BenchIdle
    /\ MainIdle
    /\ MockIdle
    /\ ReduceIdle
    /\ HitterIdle
    /\ now = 0
    /\ ctxDone = FALSE
    /\ parentDone = FALSE
    /\ runPc = "start"
    /\ workersStarted = 0
    /\ rampUpStarted = FALSE
    /\ tickPending = FALSE
    /\ tickerOn = FALSE
    /\ lagged = FALSE
    /\ wgCount = 0
    /\ wCheck = 0
    /\ wAcquire = 0
    /\ semaphore = 0
    /\ admitted = 0
    /\ tasks = EmptyBag
    /\ metrics = NewMetrics

\* NewRunner, optionally WithRampUp (rampUpDuration shorter or longer than
\* duration), then the call of Run
SchedInit ==
    /\ numUsers \in 1..MaxRampUsers
    /\ duration \in 1..MaxRampTicks
    /\ rampUp \in BOOLEAN
    /\ rampUpDuration \in (IF rampUp THEN 1..MaxRampTicks ELSE {0})
    /\ RunnerFresh

SchedNext ==
    \/ RunStart
    \/ RampTick
    \/ RampCtxDone
    \/ ClockTick
    \/ ParentCancel
    \/ WorkerCheckDone
    \/ WorkerCheckDefault
    \/ WorkerAcquire
    \/ WorkerAcquireDone
    \/ \E t \in TaskStates : TaskEnds(t)
    \/ RunReturn

SpecSched == SchedInit /\ [][SchedNext]_vars

SchedFairness ==
    /\ WF_vars(RunStart)
    /\ WF_vars(ClockTick)
    /\ WF_vars(RampCtxDone)
    /\ WF_vars(WorkerCheckDone)
    /\ WF_vars(WorkerCheckDefault)
    /\ WF_vars(WorkerAcquireDone)
    /\ WF_vars(RunReturn)

SpecSchedFair == SpecSched /\ SchedFairness

\* ---- C29: the scheduler never starts more dispatcher workers than
\* numUsers, and while less than rampUpDuration has elapsed never more than
\* max(1, floor(numUsers * t / rampUpDuration)).
C29_WorkersWithinSchedule ==
    /\ workersStarted <= numUsers
    /\ (rampUp /\ now < rampUpDuration) =>
          workersStarted <= Max(1, (numUsers * now) \div rampUpDuration)

C29_Witness ==
    /\ rampUp
    /\ runPc = "ramp"
    /\ numUsers = 3
    /\ rampUpDuration = 3
    /\ now = 2
    /\ workersStarted = 2
    /\ ~ctxDone

\* ---- C30: Run terminates.  From the moment its context is cancelled (the
\* deadline, or the caller) every dispatcher worker exits, also one waiting
\* at a full semaphore, the scheduler of runWithRampUp leaves its loop also
\* when the ramp is not finished, and Run returns; the deadline does arrive.
C30_RunTerminates ==
    /\ ctxDone ~> (wCheck = 0 /\ wAcquire = 0 /\ wgCount = 0 /\ runPc # "ramp")
    /\ <>(runPc = "returned")

C30_Witness ==
    /\ runPc = "returned"
    /\ ~parentDone
    /\ rampUp
    /\ rampUpDuration > duration
    /\ workersStarted >= 1
    /\ workersStarted < numUsers
    /\ semaphore = numUsers
    /\ InFlight = numUsers

\* ================================================ the shared Metrics
\* request tasks that have not yet finished recordResult: each of them still
\* writes TotalRequests, the outcome counters, the latency aggregates and
\* Results
MayStillWrite == CountAt({"prepare", "do", "record", "recording"})

\* ---- C31: every access to the Metrics of a Runner is free of data races:
\* the writes of recordResult happen under metrics.mu, held by one task at a
\* time, and the reads made without the lock (Run computing the success rate,
\* the caller reading the Metrics Run returned) happen when no request task
\* can still write.
C31_MetricsRaceFree ==
    /\ CountAt({"recording"}) <= 1
    /\ metrics.mu <=> CountAt({"recording"}) = 1
    /\ runPc = "returned" => MayStillWrite = 0

\* the latencies of the outcomes recorded so far
RecordedLatencies(m) == {m.Results[i].Latency : i \in 1..Len(m.Results)}
SetMin(S) == CHOOSE x \in S : \A y \in S : x <= y
SetMax(S) == CHOOSE x \in S : \A y \in S : x >= y

\* ---- C32: once at least one outcome is recorded, MinLatency is the least
\* and MaxLatency the greatest latency of the recorded outcomes, the outcomes
\* of latency 0 (request-generation failures) included.
C32_MinMaxOfRecorded ==
    Len(metrics.Results) >= 1 =>
        /\ metrics.MinLatency = SetMin(RecordedLatencies(metrics))
        /\ metrics.MaxLatency = SetMax(RecordedLatencies(metrics))

\* the sum of the latencies of a list of outcomes
RECURSIVE SumLatency(_)
SumLatency(rs) ==
    IF rs = <<>> THEN 0 ELSE rs[1].Latency + SumLatency(Tail(rs))

\* the task inside recordResult, whose TotalRequests++ is done and whose
\* append is still to come
InRecordResult == IF metrics.mu THEN 1 ELSE 0

\* ---- C33: the outcome list and the counters of a Runner agree: with the
\* lock free len(Results) = TotalRequests (inside recordResult the counter
\* is one ahead, until the append), every request task calls recordResult
\* exactly once (the admitted requests are the counted ones plus the tasks
\* that have not yet called it), and TotalLatency is the sum of the
\* latencies of the recorded outcomes.
C33_ResultsAgreeWithCounters ==
    /\ Len(metrics.Results) + InRecordResult = metrics.TotalRequests
    /\ metrics.TotalRequests + CountAt({"prepare", "do", "record"}) = admitted
    /\ metrics.TotalLatency = SumLatency(metrics.Results)

\* two outcomes are recorded, one without and one with a measured latency,
\* and the task of the second has ended
C33_Witness ==
    /\ ~metrics.mu
    /\ metrics.Results = <<GenFailure, Response(200, 1)>>
    /\ metrics.TotalRequests = 2
    /\ metrics.TotalLatency = 1
    /\ admitted = 2
    /\ InFlight = 0

\* ============================ runBenchmarks: reducing one target's results
\* Part of runBenchmarks between the end of the attack and the stop of the
\* sampler: in users mode the conversion of the Runner's Metrics into vegeta
\* metrics and the two histograms, in rate mode the loop over the attack's
\* results.  The outcomes are the inputs: lists of at most MaxOutcomes.
MaxOutcomes == 3

\* fmt.Sprintf("%d", n) for n >= 0
Digits == <<"0", "1", "2", "3", "4", "5", "6", "7", "8", "9">>
RECURSIVE Itoa(_)
Itoa(n) ==
    IF n < 10 THEN Digits[n + 1]
              ELSE Itoa(n \div 10) \o Digits[(n % 10) + 1]

\* m[k]++ on a map[string]int
Incr(m, k) == IF k \in DOMAIN m THEN [m EXCEPT ![k] = @ + 1] ELSE m @@ (k :> 1)

\* the sum of the counts of a map[string]int
RECURSIVE MapSum(_)
MapSum(m) ==
    IF DOMAIN m = {} THEN 0
    ELSE LET k == CHOOSE x \in DOMAIN m : TRUE
         IN m[k] + MapSum([x \in DOMAIN m \ {k} |-> m[x]])

\* the lists of at most n elements of S
ListsUpTo(S, n) == UNION {[1..k -> S] : k \in 0..n}

\* status codes and latencies (in ticker periods) the target answers with
ReduceCodes == {200, 201, 404, 500}
ReduceLatencies == {1, 2}

\* createConcurrentTargeter and http.NewRequest fail or succeed for a whole
\* run: the generator fails when OPENAI_API_KEY is unset for OpenAI or
\* Portkey, http.NewRequest when the endpoint is no URL; otherwise every
\* request reaches client.Do
GeneratorModes == {"no api key", "bad endpoint", "issued"}
OutcomesOf(gen) ==
    IF gen = "no api key" THEN {GenFailure}
    ELSE IF gen = "bad endpoint" THEN {NewRequestFailure}
    ELSE {TransportFailure(lat) : lat \in ReduceLatencies}
           \cup {Response(code, lat) : code \in ReduceCodes,
                                       lat \in ReduceLatencies}

\* recordResult as one step, and the Metrics Run returns after a list of
\* outcomes
RecordResult(m, result) == TrackLatency(CountOutcome(CountTotal(m), result), result)
RECURSIVE RecordAll(_, _)
RecordAll(m, rs) ==
    IF rs = <<>> THEN m ELSE RecordAll(RecordResult(m, rs[1]), Tail(rs))
Returned(rs) ==
    LET m == RecordAll(NewMetrics, rs)
    IN [m EXCEPT !.SuccessRate = SuccessRateOf(m)]

\* vegeta.Result as the attack delivers it: Code 0 with the transport error,
\* or the status code, with the status text as Error for a code of 400 and
\* above
AttackResults ==
    {[Code |-> 0, Error |-> "connection refused"],
     [Code |-> 200, Error |-> ""],
     [Code |-> 201, Error |-> ""],
     [Code |-> 304, Error |-> ""],
     [Code |-> 500, Error |-> "500 Internal Server Error"]}

\* runBenchmarks has created dropReasons for the target; in users mode
\* runner.Run(ctx) has returned, in rate mode the attack is about to deliver
ReduceInit ==
    /\ numUsers = 1
    /\ duration = 1
    /\ rampUp = FALSE
    /\ rampUpDuration = 0
    /\ now = 0
    /\ parentDone = FALSE
    /\ workersStarted = 0
    /\ rampUpStarted = FALSE
    /\ tickPending = FALSE
    /\ tickerOn = FALSE
    /\ lagged = FALSE
    /\ wgCount = 0
    /\ wCheck = 0
    /\ wAcquire = 0
    /\ semaphore = 0
    /\ admitted = 0
    /\ tasks = EmptyBag
    /\ BenchIdle
    /\ MockIdle
    /\ HitterIdle
    /\ mainPc = "run"
    /\ attack = NoAttack
    /\ outputFile = [kind |-> "absent", doc |-> <<>>]
    /\ resultsMap = <<>>
    /\ written = <<>>
    /\ dropReasons = <<>>
    /\ \/ /\ users = 1
          /\ rate = 0
          /\ runPc = "returned"
          /\ ctxDone = TRUE
          /\ \E gen \in GeneratorModes :
               \E rs \in ListsUpTo(OutcomesOf(gen), MaxOutcomes) :
                  metrics = Returned(rs)
          /\ conv = [NoConv EXCEPT !.pc = "head"]
       \/ /\ users = 0
          /\ rate = 1
          /\ runPc = "none"
          /\ ctxDone = FALSE
          /\ metrics = NewMetrics
          /\ \E rs \in ListsUpTo(AttackResults, MaxOutcomes) :
               conv = [NoConv EXCEPT !.pc = "range", !.pending = rs]

reduceFrame == <<runnerVars, benchVars, mainVars, mockVars, hitterVars>>

\* users mode: Requests, Success, the latency statistics (lines 896-908)
ConvertHead ==
    /\ conv.pc = "head"
    /\ conv' = [conv EXCEPT !.pc = "loop", !.i = 1,
                            !.metrics.Requests = ToVegeta(metrics).Requests,
                            !.metrics.Success = ToVegeta(metrics).Success,
                            !.metrics.Mean = ToVegeta(metrics).Mean,
                            !.metrics.Min = metrics.MinLatency,
                            !.metrics.Max = metrics.MaxLatency]
    /\ UNCHANGED <<reduceFrame, dropReasons>>

\* users mode: the key of statusCodes an outcome with a response is counted
\* under
StatusKey(result) ==
    IF result.Success THEN "200" ELSE Itoa(result.StatusCode)

\* users mode: the outcomes counted in dropReasons, and under which key
DroppedAlways(result) == TRUE
Dropped(result) == ~result.Success
DropReason(result) ==
    IF result.StatusCode > 0 THEN "HTTP " \o Itoa(result.StatusCode)
                             ELSE result.Error

\* users mode: one iteration of `for _, result := range
\* concurrentMetrics.Results`
ConvertResult ==
    /\ conv.pc = "loop"
    /\ conv.i <= Len(metrics.Results)
    /\ LET result == metrics.Results[conv.i]
       IN /\ conv' = [conv EXCEPT
                        !.i = @ + 1,
                        !.statusCodes =
                            IF result.Success \/ result.StatusCode > 0
                              THEN Incr(@, StatusKey(result)) ELSE @]
          /\ dropReasons' = IF Dropped(result)
                              THEN Incr(dropReasons, DropReason(result))
                              ELSE dropReasons
    /\ UNCHANGED reduceFrame

\* users mode: the loop is over; metrics.StatusCodes, Rate and Throughput
ConvertTail ==
    /\ conv.pc = "loop"
    /\ conv.i > Len(metrics.Results)
    /\ conv' = [conv EXCEPT !.pc = "done",
                            !.metrics.StatusCodes = conv.statusCodes,
                            !.metrics.Rate = FloatDiv(metrics.TotalRequests, duration)]
    /\ UNCHANGED <<reduceFrame, dropReasons>>

\* rate mode: the results counted in dropReasons, and under which key
RateDropped(res) == res.Error # "" \/ res.Code # 200
RateDropReason(res) ==
    IF res.Error # "" THEN res.Error ELSE "HTTP " \o Itoa(res.Code)

\* rate mode: one iteration of `for res := range attacker.Attack(...)`:
\* metrics.Add(res), the drop reason, then the select on ctx.Done(), which
\* records context_timeout and leaves the loop when the timeout has passed
RateReceive ==
    /\ conv.pc = "range"
    /\ conv.pending # <<>>
    /\ LET res == Head(conv.pending)
           tracked == IF RateDropped(res)
                        THEN Incr(dropReasons, RateDropReason(res))
                        ELSE dropReasons
       IN \E expired \in BOOLEAN :
            /\ conv' = [conv EXCEPT !.pending = Tail(@),
                                    !.i = @ + 1,
                                    !.metrics.Requests = @ + 1,
                                    !.pc = IF expired THEN "done" ELSE "range"]
            /\ dropReasons' = IF expired THEN Incr(tracked, "context_timeout")
                                         ELSE tracked
    /\ UNCHANGED reduceFrame

\* rate mode: the channel is closed, the loop ends; metrics.Close()
RateClose ==
    /\ conv.pc = "range"
    /\ conv.pending = <<>>
    /\ conv' = [conv EXCEPT !.pc = "done"]
    /\ UNCHANGED <<reduceFrame, dropReasons>>

ReduceNext ==
    \/ ConvertHead
    \/ ConvertResult
    \/ ConvertTail
    \/ RateReceive
    \/ RateClose

SpecReduce == ReduceInit /\ [][ReduceNext]_vars

\* the positions of the outcomes of rs with status code c
WithStatus(rs, c) == {i \in 1..Len(rs) : rs[i].StatusCode = c}
\* the status codes that occur in rs (0 stands for no response)
StatusesOf(rs) == {rs[i].StatusCode : i \in 1..Len(rs)} \ {0}

\* ---- C34: the status histogram of users mode groups the outcomes by their
\* own status code: an outcome with status code c > 0 is counted under the
\* key c (a 201 under 201), outcomes without a response are counted under no
\* key, and the counts sum to the number of outcomes with a status code.
C34_StatusHistogramByCode ==
    (conv.pc = "done" /\ users > 0) =>
        LET rs == metrics.Results
            h == conv.metrics.StatusCodes
        IN /\ DOMAIN h = {Itoa(c) : c \in StatusesOf(rs)}
           /\ \A c \in StatusesOf(rs) :
                 h[Itoa(c)] = Cardinality(WithStatus(rs, c))
           /\ MapSum(h) = Cardinality({i \in 1..Len(rs) : rs[i].StatusCode > 0})

\* the outcomes of the Runner's list the conversion loop has handled
Handled == IF conv.pc = "done" THEN Len(metrics.Results) ELSE conv.i - 1
\* the failed outcomes among the handled ones that carry status code c, and
\* those without a response that carry the error text e
FailedWithStatus(c) ==
    {i \in 1..Handled : ~metrics.Results[i].Success
                           /\ metrics.Results[i].StatusCode = c}
FailedWithError(e) ==
    {i \in 1..Handled : ~metrics.Results[i].Success
                           /\ metrics.Results[i].StatusCode = 0
                           /\ metrics.Results[i].Error = e}

PerRequestFailure(res) == res.Error # "" \/ res.Code < 200 \/ res.Code >= 300
\* the counts of dropReasons that stand for results (context_timeout stands
\* for the abort of the loop)
ResultDrops(d) ==
    MapSum([k \in DOMAIN d \ {"context_timeout"} |-> d[k]])

\* ---- C36: in rate mode a result is counted in dropReasons iff it is a
\* per-request failure (a transport error or a non-2xx status), and then
\* exactly once: a result with a 2xx status and no error is not counted.
C36_RateDropsAreFailures ==
    [][(rate > 0 /\ conv.pc = "range" /\ conv'.i = conv.i + 1) =>
          ResultDrops(dropReasons') - ResultDrops(dropReasons)
             = IF PerRequestFailure(Head(conv.pending)) THEN 1 ELSE 0]_vars

\* the outcomes of rs whose latency was measured: makeRequest reached
\* client.Do (a generation or http.NewRequest failure returns before
\* `start := time.Now()`)
Measured(rs) ==
    {i \in 1..Len(rs) : rs[i].Error \notin {GenFailure.Error,
                                           NewRequestFailure.Error}}

ReadingsOf(samples) == {samples[i].RSS : i \in 1..Len(samples)}
RECURSIVE SumOfFirst(_, _)
SumOfFirst(samples, n) ==
    IF n = 0 THEN 0 ELSE samples[n].RSS + SumOfFirst(samples, n - 1)

\* peak (in MB) and average (a fraction, in MB) are those of the samples
SummaryOfSamples(entry, samples) ==
    IF samples = <<>>
      THEN /\ entry.server_peak_memory_mb = 0
           /\ entry.server_avg_memory_mb[1] = 0
      ELSE /\ entry.server_peak_memory_mb * MiB = SetMax(ReadingsOf(samples))
           /\ entry.server_avg_memory_mb[1] = SumOfFirst(samples, Len(samples))
           /\ entry.server_avg_memory_mb[2] = Len(samples) * MiB

\* ---- C38: for the sample sequence of every target the saved peak memory
\* is the maximum RSS over the samples and the saved average memory the mean
\* RSS over the samples, both in MB, and both are 0 when there is no sample.
C38_PeakAndAverageOfSamples ==
    /\ mainPc \in {"write", "saved"} =>
          \A i \in 1..Len(results) :
              SummaryOfSamples(resultsMap[ToLower(results[i].ProviderName)],
                               results[i].ServerMemoryStats)
    /\ mainPc = "saved" =>
          \A i \in 1..Len(results) :
              SummaryOfSamples(written[ToLower(results[i].ProviderName)],
                               results[i].ServerMemoryStats)

\* saved: one target with the readings 3 and 1 MiB (peak 3 MB, average
\* 4 / 2 MB), one without samples
C38_Witness ==
    /\ mainPc = "saved"
    /\ Len(results) = 2
    /\ Len(results[1].ServerMemoryStats) = 2
    /\ results[2].ServerMemoryStats = <<>>
    /\ written["openai"].server_peak_memory_mb = 3
    /\ written["openai"].server_avg_memory_mb = <<4 * MiB, 2 * MiB>>
    /\ written["bifrost"].server_peak_memory_mb = 0
    /\ written["bifrost"].server_avg_memory_mb[1] = 0

\* ================================== monitorServerMemory, one sample at a time
\* SpecMon follows monitorServerMemory alone, with what it reads: the sampler
\* has found the process and created its ticker; runBenchmarks closes
\* stopMonitoring at some point.  A sample carries the RSS and the memory
\* percentage read on its tick.

\* what p.MemoryPercent() returns: a value with or without an error
PercentReads == {[err |-> TRUE, v |-> 9], [err |-> FALSE, v |-> 7]}

\* memPercent after `if err != nil { memPercent = 0.0 }`
MemPercentRaw(read) == read.v
MemPercentOf(read) == IF read.err THEN 0 ELSE read.v

MonInit ==
    /\ providers = <<TRUE>>
    /\ cooldown = FALSE
    /\ target = 1
    /\ bpc = "attack"
    /\ orphans = 0
    /\ stopClosed = FALSE
    /\ monPc = "select"
    /\ monTickPending = FALSE
    /\ monTickerOn = TRUE
    /\ memClock = 0
    /\ memStat = 0
    /\ serverMemStats = <<>>
    /\ monStarved = FALSE
    /\ samplesAfterStop = 0
    /\ lookupFailed = FALSE
    /\ results = <<>>
    /\ RunnerIdle
    /\ duration = 1
    /\ rampUp = FALSE
    /\ rampUpDuration = 0
    /\ MainIdle
    /\ MockIdle
    /\ ReduceIdle
    /\ HitterIdle

\* runBenchmarks: close(stopMonitoring)
StopMonitoring ==
    /\ ~stopClosed
    /\ stopClosed' = TRUE
    /\ UNCHANGED <<monFrame, monPc, monTickPending, monTickerOn, memClock,
                   memStat, serverMemStats, monStarved, samplesAfterStop,
                   lookupFailed>>

\* monitorServerMemory: case <-ticker.C: p.MemoryInfo() fails (continue), or
\* p.MemoryPercent() is read and the ServerMemStat is built
MonReadTick ==
    /\ monPc = "select"
    /\ monTickPending
    /\ monTickPending' = FALSE
    /\ \/ UNCHANGED <<monPc, memStat>>
       \/ \E read \in PercentReads :
            /\ monPc' = "append"
            /\ memStat' = [Timestamp |-> memClock,
                           RSS |-> Reading(memClock) * MiB,
                           MemPercent |-> MemPercentOf(read)]
    /\ UNCHANGED <<monFrame, stopClosed, monTickerOn, memClock,
                   serverMemStats, monStarved, samplesAfterStop, lookupFailed>>

\* monitorServerMemory: mutex.Lock(); *stats = append(*stats, memStat);
\* mutex.Unlock()
MonAppendStat ==
    /\ monPc = "append"
    /\ serverMemStats' = AppendSample(serverMemStats, memStat)
    /\ samplesAfterStop' = samplesAfterStop + (IF stopClosed THEN 1 ELSE 0)
    /\ monPc' = "select"
    /\ UNCHANGED <<monFrame, stopClosed, monTickPending, monTickerOn,
                   memClock, memStat, monStarved, lookupFailed>>

MonNext ==
    \/ MonTickFire
    \/ StopMonitoring
    \/ MonSelectStop
    \/ MonReadTick
    \/ MonAppendStat

SpecMon == MonInit /\ [][MonNext]_vars

\* one step of the sampler on a tick, seen from outside
SamplerStep ==
    /\ serverMemStats' # serverMemStats =>
          /\ monPc = "append"
          /\ serverMemStats' = Append(serverMemStats, memStat)
    /\ (monPc = "select" /\ monPc' = "append") =>
          /\ monTickPending /\ ~monTickPending'
          /\ memStat'.Timestamp = memClock
    /\ (monPc = "select" /\ monTickPending /\ ~monTickPending') =>
          /\ monPc' \in {"select", "append"}
          /\ serverMemStats' = serverMemStats
    /\ (monPc # "exited" /\ monPc' = "exited") => stopClosed

\* ---- C39: on each tick the sampler appends exactly one sample when the
\* memory read succeeds, with percent 0 when only the percent read fails,
\* and appends nothing when the memory read fails; a failed read does not
\* stop the sampler (it exits on the stop signal only) and is not retried
\* before the next tick (no sample without a tick taken, and at most one
\* sample per tick).
C39_OneSamplePerGoodRead ==
    /\ [](\A i \in 1..Len(serverMemStats) :
             /\ serverMemStats[i].MemPercent \in
                    {0} \cup {r.v : r \in {x \in PercentReads : ~x.err}}
             /\ \A j \in 1..Len(serverMemStats) :
                    i < j => serverMemStats[i].Timestamp
                                < serverMemStats[j].Timestamp)
    /\ [](monPc = "exited" => stopClosed)
    /\ [][SamplerStep]_vars

\* two ticks, two samples: the percent read failed on the first and
\* succeeded on the second, and the sampler is still running
C39_Witness ==
    /\ monPc = "select"
    /\ ~stopClosed
    /\ Len(serverMemStats) = 2
    /\ serverMemStats[1].MemPercent = 0
    /\ serverMemStats[2].MemPercent = 7
    /\ serverMemStats[2].Timestamp = 2

\* ============================================== hitter: the load generator
\* SpecHitter follows main and the makeRequest goroutines of src/hitter.
\* hitter.tasks[n + 1] is the position of the request launched with reqNum n;
\* hitterStats are the three atomic counters of Stats.  The statsTicker
\* goroutine only loads the counters for a log line and is left out.

\* at most this many requests are launched
MaxLaunched == 3

\* what httpClient.Do returns: an error, or a response with a status code
DoOutcomes == {"error", "200", "500"}

\* positions of a makeRequest goroutine
HitterPcs == {"start", "marshal", "newreq", "do", "body", "exit", "done"}

HitterInit ==
    /\ hitterStats = NoStats
    /\ hitter = [pc |-> "loop", ctxDone |-> FALSE, wg |-> 0,
                 requestCount |-> 0, tasks |-> <<>>, final |-> NoStats]
    /\ RunnerIdle
    /\ duration = 1
    /\ rampUp = FALSE
    /\ rampUpDuration = 0
    /\ BenchIdle
    /\ MainIdle
    /\ MockIdle
    /\ ReduceIdle

hitterFrame == <<runnerVars, benchVars, mainVars, mockVars, reduceVars>>

\* atomic.AddInt64(&stats.<counter>, 1)
AddInt64(s, counter) == [s EXCEPT ![counter] = @ + 1]

\* the signal goroutine: <-sigChan; cancel()
HitSignal ==
    /\ hitter.pc \in {"loop", "cleanup"}
    /\ ~hitter.ctxDone
    /\ hitter' = [hitter EXCEPT !.ctxDone = TRUE]
    /\ UNCHANGED <<hitterStats, hitterFrame>>

\* main loop: case <-ctx.Done(): goto cleanup
HitCtxDone ==
    /\ hitter.pc = "loop"
    /\ hitter.ctxDone
    /\ hitter' = [hitter EXCEPT !.pc = "cleanup"]
    /\ UNCHANGED <<hitterStats, hitterFrame>>

\* main loop: case <-ticker.C: after endTime goto cleanup, else wg.Add(1),
\* go makeRequest(requestCount), requestCount++
HitTick ==
    /\ hitter.pc = "loop"
    /\ \/ hitter' = [hitter EXCEPT !.pc = "cleanup"]
       \/ /\ hitter.requestCount < MaxLaunched
          /\ hitter' = [hitter EXCEPT !.wg = @ + 1,
                                      !.tasks = Append(@, "start"),
                                      !.requestCount = @ + 1]
    /\ UNCHANGED <<hitterStats, hitterFrame>>

\* makeRequest: atomic.AddInt64(&stats.totalRequests, 1)
HitCount(n) ==
    /\ hitter.tasks[n] = "start"
    /\ hitterStats' = AddInt64(hitterStats, "totalRequests")
    /\ hitter' = [hitter EXCEPT !.tasks[n] = "marshal"]
    /\ UNCHANGED hitterFrame

\* makeRequest: a step that can fail; on the error errorRequests is
\* incremented and the function returns
HitFallible(n, from, to) ==
    /\ hitter.tasks[n] = from
    /\ \/ /\ hitter' = [hitter EXCEPT !.tasks[n] = to]
          /\ UNCHANGED hitterStats
       \/ /\ hitter' = [hitter EXCEPT !.tasks[n] = "exit"]
          /\ hitterStats' = AddInt64(hitterStats, "errorRequests")
    /\ UNCHANGED hitterFrame

\* makeRequest: sonic.Marshal(request)
HitMarshal(n) == HitFallible(n, "marshal", "newreq")

\* makeRequest: http.NewRequestWithContext
HitNewRequest(n) == HitFallible(n, "newreq", "do")

\* makeRequest: httpClient.Do; an error or a status other than 200 counts
\* an error, status 200 goes on to read the body
HitDo(n) ==
    /\ hitter.tasks[n] = "do"
    /\ \E out \in DoOutcomes :
         IF out = "200"
         THEN /\ hitter' = [hitter EXCEPT !.tasks[n] = "body"]
              /\ UNCHANGED hitterStats
         ELSE /\ hitter' = [hitter EXCEPT !.tasks[n] = "exit"]
              /\ hitterStats' = AddInt64(hitterStats, "errorRequests")
    /\ UNCHANGED hitterFrame

\* makeRequest: readStream or io.ReadAll of the 200 response; an error counts
\* an error, else successRequests is incremented
HitBody(n) ==
    /\ hitter.tasks[n] = "body"
    /\ hitter' = [hitter EXCEPT !.tasks[n] = "exit"]
    /\ \E counter \in {"successRequests", "errorRequests"} :
         hitterStats' = AddInt64(hitterStats, counter)
    /\ UNCHANGED hitterFrame

\* the request goroutine: defer wg.Done()
HitDone(n) ==
    /\ hitter.tasks[n] = "exit"
    /\ hitter' = [hitter EXCEPT !.tasks[n] = "done", !.wg = @ - 1]
    /\ UNCHANGED <<hitterStats, hitterFrame>>

\* wg.Wait() lets main pass
WaitSkipped(h) == TRUE
WaitPasses(h) == h.wg = 0

\* cleanup: wg.Wait(); printFinalStats loads the three counters
HitFinal ==
    /\ hitter.pc = "cleanup"
    /\ WaitPasses(hitter)
    /\ hitter' = [hitter EXCEPT !.pc = "done", !.final = hitterStats]
    /\ UNCHANGED <<hitterStats, hitterFrame>>

HitterNext ==
    \/ HitSignal
    \/ HitCtxDone
    \/ HitTick
    \/ \E n \in 1..Len(hitter.tasks) :
         \/ HitCount(n)
         \/ HitMarshal(n)
         \/ HitNewRequest(n)
         \/ HitDo(n)
         \/ HitBody(n)
         \/ HitDone(n)
    \/ HitFinal

SpecHitter == HitterInit /\ [][HitterNext]_vars

\* the number of launched requests at the positions pcs
Launched(pcs) ==
    Cardinality({n \in 1..Len(hitter.tasks) : hitter.tasks[n] \in pcs})

\* ---- C40: in the hitter every launched request increments totalRequests
\* once (on entry) and exactly one of successRequests and errorRequests once
\* (when it reaches its exit, whatever the path), and the final statistics
\* are read only after every launched request has completed, so that the
\* printed totals satisfy total = success + error = launched requests, also
\* after a stop by signal.
C40_HitterTotalsBalance ==
    /\ hitterStats.totalRequests = Launched(HitterPcs \ {"start"})
    /\ hitterStats.successRequests + hitterStats.errorRequests
          = Launched({"exit", "done"})
    /\ hitter.wg = Launched(HitterPcs \ {"done"})
    /\ hitter.pc = "done" =>
          /\ Launched({"done"}) = hitter.requestCount
          /\ hitter.final = hitterStats
          /\ hitter.final.totalRequests = hitter.requestCount
          /\ hitter.final.totalRequests
                = hitter.final.successRequests + hitter.final.errorRequests

\* a run stopped by a signal before the request budget was used, with both
\* successes and errors in the printed totals
C40_Witness ==
    /\ hitter.pc = "done"
    /\ hitter.ctxDone
    /\ hitter.requestCount = 2
    /\ hitter.final.successRequests = 1
    /\ hitter.final.errorRequests = 1

====
